---- MODULE Spec2Model ----
(***************************************************************************)
(* Model of the WhatsApp music bot's media request pipeline:               *)
(*   - DownloadQueue (src/src/queue.js): FIFO queue, one task at a time;   *)
(*   - the selection store and the message handler (src/src/index.js).     *)
(* JavaScript runs one synchronous section at a time; every action below   *)
(* is one synchronous section, from an entry point (a call, a promise      *)
(* settling, a continuation resuming) to the next await or return.         *)
(***************************************************************************)
EXTENDS Integers, Sequences, FiniteSets, TLC

\* ------------------------------------------------------------------ bounds
MaxJobs == 4        \* number of add() calls explored

NumChats == 2       \* conversations

MaxNowSeconds == 2  \* how far the clock runs, in seconds

MaxMessages == 2    \* messages received

MaxTextLen == 3     \* length of the generated texts given to the parsers

Chats == 1..NumChats

\* --------------------------------------------------------------- variables
VARIABLES
  items,        \* DownloadQueue.items: sequence of jobs {id, task}
  running,      \* DownloadQueue.running
  current,      \* local `current` of the suspended process() frame (job id, 0 = no frame)
  awaited,      \* state of the promise the frame awaits: "none" | "pending" | "fulfilled" | "rejected"
  executing,    \* task invocations in progress (job ids, one entry per invocation)
  started,      \* log: job ids in the order their task was invoked
  finished,     \* log: job ids in the order their task finished (returned/threw/settled)
  settled,      \* log: calls of resolveTask / rejectTask, in order
  removed,      \* log: job ids in the order items.shift() removed them
  addLog,       \* log: one entry per add(): id, returned position, removals seen before
  nextId,       \* id given to the next job
  config,       \* the configuration loaded at start-up (config.js)
  now,          \* Date.now(), in milliseconds
  pendingSelections, \* the Map chatId -> pending selection, as its set of entries
  inflight,     \* message handlers suspended on a search / playlist / link lookup (a set)
  received,     \* number of messages received so far
  lastOp,       \* what the synchronous section just run did (observation only)
  run,          \* one call of processSelectedMedia: position, files, subprocess log
  handlers,     \* ids of the jobs whose handle has a rejection handler (promise.catch)
  replying,     \* ids of the jobs whose enqueueMediaJob awaits the position reply
  call          \* one call of a pure function: its name, its arguments, its result

qvars == <<items, running, current, awaited, executing, started, finished,
           settled, removed, addLog, nextId>>

avars == <<config, now, pendingSelections, inflight, received, lastOp>>

jvars == <<run, handlers, replying, call>>

vars == <<qvars, avars, jvars>>

\* ------------------------------------------------------------------- tasks
\* What a task does when the queue calls it.
TaskBehaviours == {"resolve", "reject", "throw"}

\* A task: how its promise ends, and for a media job the closure's captures.
Task(behaviour, chat, video, mediaType) ==
  [behaviour |-> behaviour, chat |-> chat, video |-> video, mediaType |-> mediaType]

NoVideo == [kind |-> "none", durationSeconds |-> 0]

PlainTask(behaviour) == Task(behaviour, 0, NoVideo, "none")

Job(id, task) == [id |-> id, task |-> task]

\* The value a task resolves with, or the error it fails with: its own.
TaskResult(job) ==
  IF job.task.behaviour = "resolve" THEN [kind |-> "value", of |-> job.id]
                          ELSE [kind |-> "error", of |-> job.id]

JobById(id) ==
  LET e == CHOOSE e \in 1..Len(addLog) : addLog[e].id = id
  IN Job(id, addLog[e].task)

\* ------------------------------------------------------------------- texts
\* A text is a sequence of one-character strings, so that trimming, case
\* folding and pattern matching are computed as the code computes them.
Digits == <<"0", "1", "2", "3", "4", "5", "6", "7", "8", "9">>

LowerCase == <<"a", "b", "c", "d", "e", "f", "g", "h", "i", "j", "k", "l", "m",
               "n", "o", "p", "q", "r", "s", "t", "u", "v", "w", "x", "y", "z">>

UpperCase == <<"A", "B", "C", "D", "E", "F", "G", "H", "I", "J", "K", "L", "M",
               "N", "O", "P", "Q", "R", "S", "T", "U", "V", "W", "X", "Y", "Z">>

IsDigit(c) == \E i \in 1..Len(Digits) : Digits[i] = c

IsLower(c) == \E i \in 1..Len(LowerCase) : LowerCase[i] = c

IsSpace(c) == c = " "

DigitValue(c) == (CHOOSE i \in 1..Len(Digits) : Digits[i] = c) - 1

\* String.prototype.toLowerCase
ToLowerCase(s) ==
  [i \in 1..Len(s) |->
     IF \E k \in 1..Len(UpperCase) : UpperCase[k] = s[i]
     THEN LowerCase[CHOOSE k \in 1..Len(UpperCase) : UpperCase[k] = s[i]]
     ELSE s[i]]

\* String.prototype.trim
Trim(s) ==
  LET keep == {i \in 1..Len(s) : ~IsSpace(s[i])}
  IN IF keep = {} THEN <<>>
     ELSE SubSeq(s, CHOOSE i \in keep : \A j \in keep : i <= j,
                    CHOOSE i \in keep : \A j \in keep : j <= i)

\* Number(<digits>)
RECURSIVE Number(_)
Number(ds) ==
  IF Len(ds) = 0 THEN 0
  ELSE 10 * Number(SubSeq(ds, 1, Len(ds) - 1)) + DigitValue(ds[Len(ds)])

AllDigits(s) == Len(s) > 0 /\ \A i \in 1..Len(s) : IsDigit(s[i])

AllLower(s) == Len(s) > 0 /\ \A i \in 1..Len(s) : IsLower(s[i])

AllSpaces(s) == \A i \in 1..Len(s) : IsSpace(s[i])

StartsWith(s, prefix) ==
  Len(s) >= Len(prefix) /\ SubSeq(s, 1, Len(prefix)) = prefix

IndexOfSpaceLast(s) ==
  LET at == {i \in 1..Len(s) : IsSpace(s[i])}
  IN IF at = {} THEN 0 ELSE CHOOSE i \in at : \A j \in at : j <= i

\* String.prototype.indexOf(' '), 1-based, 0 when absent
IndexOfSpace(s) ==
  LET at == {i \in 1..Len(s) : IsSpace(s[i])}
  IN IF at = {} THEN 0 ELSE CHOOSE i \in at : \A j \in at : i <= j

\* ---------------------------------------------------- commands.js parseCommand
CmdHelp == <<"/", "h", "e", "l", "p">>

CmdCancel == <<"/", "c", "a", "n", "c", "e", "l">>

CmdPlay == <<"/", "p", "l", "a", "y">>

CmdVideo == <<"/", "v", "i", "d", "e", "o">>

ParsedCommand(type, query, error) == [type |-> type, query |-> query, error |-> error]

parseCommand(rawText) ==
  IF Len(rawText) = 0 THEN ParsedCommand("none", <<>>, "")
  ELSE
    LET text == Trim(rawText)
        firstSpace == IndexOfSpace(text)
        rawCommand == IF firstSpace = 0 THEN text ELSE SubSeq(text, 1, firstSpace - 1)
        command == ToLowerCase(rawCommand)
        query == IF firstSpace = 0 THEN <<>>
                 ELSE Trim(SubSeq(text, firstSpace + 1, Len(text)))
    IN IF ~StartsWith(text, <<"/">>) THEN ParsedCommand("none", <<>>, "")
       ELSE IF command = CmdHelp THEN ParsedCommand("help", <<>>, "")
       ELSE IF command = CmdCancel THEN ParsedCommand("cancel", <<>>, "")
       ELSE IF command = CmdPlay
         THEN (IF Len(query) = 0 THEN ParsedCommand("play", <<>>, "EMPTY_QUERY")
                                 ELSE ParsedCommand("play", query, ""))
       ELSE IF command = CmdVideo
         THEN (IF Len(query) = 0 THEN ParsedCommand("video", <<>>, "EMPTY_QUERY")
                                 ELSE ParsedCommand("video", query, ""))
       ELSE ParsedCommand("unknown", <<>>, "")

\* ------------------------------------------- index.js parseSelectionChoice
MEDIA_AUDIO == "audio"

MEDIA_VIDEO == "video"

normalizeMediaTokenFirstLetter(token) ==
  LET value == ToLowerCase(token)
  IN IF Len(value) > 0 /\ value[1] = "a" THEN {MEDIA_AUDIO}
     ELSE IF Len(value) > 0 /\ value[1] = "v" THEN {MEDIA_VIDEO}
     ELSE {}

\* normalizeMediaToken: the media type of a letter token, {} for null.
normalizeMediaToken(token) ==
  LET value == ToLowerCase(token)
  IN IF value = <<"a">> \/ value = <<"a", "u", "d", "i", "o">> THEN {MEDIA_AUDIO}
     ELSE IF value = <<"v">> \/ value = <<"v", "i", "d", "e", "o">> THEN {MEDIA_VIDEO}
     ELSE {}

\* The splits <<i, j>> of s into first[1..i], spaces[i+1..j], second[j+1..]
\* for the patterns ^([a-z]+)\s*(\d+)$ (lettersFirst) and ^(\d+)\s*([a-z]+)$.
SplitsOf(s, lettersFirst) ==
  {ij \in (1..Len(s)) \X (1..Len(s)) :
     /\ ij[1] <= ij[2] /\ ij[2] < Len(s)
     /\ AllSpaces(SubSeq(s, ij[1] + 1, ij[2]))
     /\ IF lettersFirst
          THEN AllLower(SubSeq(s, 1, ij[1])) /\ AllDigits(SubSeq(s, ij[2] + 1, Len(s)))
          ELSE AllDigits(SubSeq(s, 1, ij[1])) /\ AllLower(SubSeq(s, ij[2] + 1, Len(s)))}

\* parseSelectionChoice: {} for null, else a singleton {index, mediaType}.
parseSelectionChoice(text, defaultMediaType) ==
  LET value == ToLowerCase(Trim(text))
      mediaFirst == SplitsOf(value, TRUE)
      indexFirst == SplitsOf(value, FALSE)
  IN IF Len(value) = 0 THEN {}
     ELSE IF AllDigits(value)
       THEN {[index |-> Number(value), mediaType |-> defaultMediaType]}
     ELSE IF mediaFirst # {}
       THEN LET ij == CHOOSE x \in mediaFirst : TRUE
            IN {[index |-> Number(SubSeq(value, ij[2] + 1, Len(value))), mediaType |-> m] :
                  m \in normalizeMediaToken(SubSeq(value, 1, ij[1]))}
     ELSE IF indexFirst # {}
       THEN LET ij == CHOOSE x \in indexFirst : TRUE
            IN {[index |-> Number(SubSeq(value, 1, ij[1])), mediaType |-> m] :
                  m \in normalizeMediaToken(SubSeq(value, ij[2] + 1, Len(value)))}
     ELSE {}

\* ------------------------------------------------------- DownloadQueue.process
AlreadyRunningNoGuard(r) == FALSE

\* `if (this.running) return;`
AlreadyRunning(r) == r

CurrentOfLast(its) == its[Len(its)]

\* `const current = this.items[0];`
CurrentOf(its) == Head(its)

\* `this.items.shift();`
Shift(its) == Tail(its)

\* `current.resolveTask(result)` / `current.rejectTask(error)`
SettleCall(job, how) == [id |-> job.id, how |-> how, with |-> TaskResult(job)]

LoopExitKeepsRunning(q) == [q EXCEPT !.current = 0, !.awaited = "none"]

\* `this.running = false;` after the while loop
LoopExit(q) == [q EXCEPT !.running = FALSE, !.current = 0, !.awaited = "none"]

\* The loop without its try/catch: a synchronous throw escapes process().
LoopFromNoCatch(q) ==
  IF Len(q.items) = 0 THEN LoopExit(q)
  ELSE LET cur == CurrentOf(q.items) IN
       IF cur.task.behaviour = "throw"
       THEN [q EXCEPT !.started  = Append(@, cur.id),
                      !.finished = Append(@, cur.id)]
       ELSE [q EXCEPT !.started   = Append(@, cur.id),
                      !.executing = Append(@, cur.id),
                      !.current   = cur.id,
                      !.awaited   = "pending"]

\* The synchronous part of the while loop, from its condition to the next
\* await that suspends (or to the exit).  A task that throws synchronously is
\* caught at once: its handle is rejected, it is shifted and the loop goes on
\* in the same synchronous section.
RECURSIVE LoopFrom(_)
LoopFrom(q) ==
  IF Len(q.items) = 0 THEN LoopExit(q)
  ELSE LET cur == CurrentOf(q.items) IN
       IF cur.task.behaviour = "throw"
       THEN LoopFrom([q EXCEPT !.started  = Append(@, cur.id),
                               !.finished = Append(@, cur.id),
                               !.settled  = Append(@, SettleCall(cur, "rejected")),
                               !.removed  = Append(@, Head(q.items).id),
                               !.items    = Shift(@)])
       ELSE [q EXCEPT !.started   = Append(@, cur.id),
                      !.executing = Append(@, cur.id),
                      !.current   = cur.id,
                      !.awaited   = "pending"]

ProcessNeverMarksRunning(q) ==
  IF AlreadyRunning(q.running) THEN q ELSE LoopFrom(q)

\* process() called from add(): returns at once when a loop is active.
Process(q) ==
  IF AlreadyRunning(q.running) THEN q
  ELSE LoopFrom([q EXCEPT !.running = TRUE])

QState == [items |-> items, running |-> running, current |-> current,
           awaited |-> awaited, executing |-> executing, started |-> started,
           finished |-> finished, settled |-> settled, removed |-> removed]

SetQueue(q) ==
  /\ items' = q.items
  /\ running' = q.running
  /\ current' = q.current
  /\ awaited' = q.awaited
  /\ executing' = q.executing
  /\ started' = q.started
  /\ finished' = q.finished
  /\ settled' = q.settled
  /\ removed' = q.removed

\* ----------------------------------------------------------- DownloadQueue.add
PushPositionZeroBased(its) == Len(its)

\* `const position = this.items.push({...})`: the new length.
PushPosition(its) == Len(its) + 1

QueueAdd(task) ==
  LET job == Job(nextId, task)
      pos == PushPosition(items)
  IN /\ nextId <= MaxJobs
     /\ addLog' = Append(addLog, [id |-> nextId, task |-> task, position |-> pos,
                                  removedBefore |-> Len(removed), wasRunning |-> running])
     /\ nextId' = nextId + 1
     /\ SetQueue(Process([QState EXCEPT !.items = Append(items, job)]))

\* lastOp: the handler section just run; for a message, the index it asks for
\* when it has the shape of a selection reply (else -1), what
\* getPendingSelection returned and whether it deleted an expired entry; for a
\* lookup that ended, the payload passed to setPendingSelection and the entry
\* the Map held for the conversation before; the reply issued; for a message
\* read against a pending selection, what parseSelectionChoice returned; for a
\* message whose context carries quotedText, its text and the quoted text.
Op(kind, chat, index, got, evicted, set, replaced, reply, selection, quoted) ==
  [kind |-> kind, chat |-> chat, index |-> index, got |-> got, evicted |-> evicted,
   set |-> set, replaced |-> replaced, reply |-> reply, selection |-> selection,
   quoted |-> quoted]

NoOp == Op("none", 0, -1, {}, FALSE, {}, {}, "none", {}, {})

\* add() called with an arbitrary task.
Add(behaviour) ==
  /\ QueueAdd(PlainTask(behaviour))
  /\ lastOp' = NoOp
  /\ UNCHANGED <<config, now, pendingSelections, inflight, received, jvars>>

\* ------------------------------------------------------------ task completion
RemoveAt(s, i) == SubSeq(s, 1, i - 1) \o SubSeq(s, i + 1, Len(s))

\* The promise returned by a running task settles.
TaskFinish ==
  \E i \in 1..Len(executing) :
    LET id == executing[i]
        job == JobById(id)
    IN /\ executing' = RemoveAt(executing, i)
       /\ finished' = Append(finished, id)
       /\ awaited' = IF id = current
                     THEN (IF job.task.behaviour = "resolve" THEN "fulfilled" ELSE "rejected")
                     ELSE awaited
       /\ lastOp' = NoOp
       /\ UNCHANGED <<items, running, current, started, settled, removed, addLog, nextId>>
       /\ UNCHANGED <<config, now, pendingSelections, inflight, received, jvars>>

\* The suspended process() frame resumes after `await current.task()`:
\* try/catch settles the handle, finally shifts, the while loop goes on.
LoopResume ==
  /\ current # 0
  /\ awaited \in {"fulfilled", "rejected"}
  /\ LET job == JobById(current)
         how == IF awaited = "fulfilled" THEN "resolved" ELSE "rejected"
     IN SetQueue(LoopFrom([QState EXCEPT
                             !.settled = Append(@, SettleCall(job, how)),
                             !.removed = Append(@, Head(items).id),
                             !.items   = Shift(@),
                             !.current = 0,
                             !.awaited = "none"]))
  /\ lastOp' = NoOp
  /\ UNCHANGED <<addLog, nextId>>
  /\ UNCHANGED <<config, now, pendingSelections, inflight, received, jvars>>

\* ------------------------------------------------------------ configuration
\* config.js reads every value from the environment.  The duration ceilings
\* are the defaults (audio 1800 s, video 1200 s) and the README's two-hour
\* video ceiling; the list sizes and the selection timeout are small values.
Configs ==
  {[maxAudioDuration |-> 1800, maxVideoDuration |-> v, maxSearchOptions |-> 3,
    maxPlaylistItems |-> 2, selectionTimeoutSeconds |-> 1] : v \in {1200, 7200}}

\* getMaxSearchDuration
getMaxSearchDuration(cfg) ==
  IF cfg.maxAudioDuration >= cfg.maxVideoDuration THEN cfg.maxAudioDuration
                                                  ELSE cfg.maxVideoDuration

\* --------------------------------------------------------------- candidates
Video(d) == [kind |-> "video", durationSeconds |-> d]

Playlist == [kind |-> "playlist", durationSeconds |-> 0]

\* What yt-search answers to a term: the normalized videos and playlists.
YtsSearchResults ==
  {[videos |-> <<Video(0), Video(9000)>>, playlists |-> <<>>],
   [videos |-> <<Video(0), Video(100), Video(2000), Video(9000)>>,
    playlists |-> <<Playlist>>]}

\* What yt-search answers to a playlist id: the normalized videos.
YtsPlaylistResults ==
  {<<Video(0), Video(9000)>>, <<Video(9000), Video(100), Video(1500), Video(2000)>>}

\* What yt-search answers to a video id.
YtsVideoResults == {Video(0), Video(100), Video(1500), Video(9000)}

Take(seq, n) == SubSeq(seq, 1, IF n < Len(seq) THEN n ELSE Len(seq))

\* combineSearchResults
RECURSIVE combineSearchResults(_, _, _, _)
combineSearchResults(videoOptions, playlistOptions, maxTotalOptions, mixed) ==
  IF ~(Len(mixed) < maxTotalOptions /\ (Len(videoOptions) > 0 \/ Len(playlistOptions) > 0))
  THEN mixed
  ELSE LET withVideo == IF Len(videoOptions) > 0 THEN Append(mixed, Head(videoOptions))
                                                 ELSE mixed
           restVideos == IF Len(videoOptions) > 0 THEN Tail(videoOptions) ELSE videoOptions
       IN IF Len(withVideo) >= maxTotalOptions THEN withVideo
          ELSE IF Len(playlistOptions) > 0
            THEN combineSearchResults(restVideos, Tail(playlistOptions), maxTotalOptions,
                                      Append(withVideo, Head(playlistOptions)))
            ELSE combineSearchResults(restVideos, playlistOptions, maxTotalOptions, withVideo)

WithinSearchDurationNoFloor(video, maxDurationSeconds) ==
  video.durationSeconds <= maxDurationSeconds

WithinSearchDuration(video, maxDurationSeconds) ==
  video.durationSeconds > 0 /\ video.durationSeconds <= maxDurationSeconds

\* searchMediaOptions: <<>> stands for the NOT_FOUND error.
searchMediaOptions(result, cfg) ==
  LET videos == Take(SelectSeq(result.videos,
                               LAMBDA v : WithinSearchDuration(v, getMaxSearchDuration(cfg))),
                     cfg.maxSearchOptions)
      playlists == Take(result.playlists, cfg.maxSearchOptions)
  IN combineSearchResults(videos, playlists, cfg.maxSearchOptions, <<>>)

\* getPlaylistOptions: <<>> stands for the PLAYLIST_NO_VALID_VIDEOS error.
getPlaylistOptions(playlistVideos, cfg) ==
  Take(SelectSeq(playlistVideos,
                 LAMBDA v : WithinSearchDuration(v, getMaxSearchDuration(cfg))),
       cfg.maxPlaylistItems)

\* assertVideoDuration (youtube.js): "" when it returns, else the error code.
assertVideoDuration(video, maxDurationSeconds) ==
  IF video.durationSeconds <= 0 THEN "INVALID_DURATION"
  ELSE IF video.durationSeconds > maxDurationSeconds THEN "DURATION_LIMIT"
  ELSE ""

assertDurationForMediaOneLimit(video, mediaType, cfg) ==
  assertVideoDuration(video, getMaxSearchDuration(cfg))

assertDurationForMediaExclusive(video, mediaType, cfg) ==
  LET duration == video.durationSeconds
      limit == IF mediaType = MEDIA_VIDEO THEN cfg.maxVideoDuration ELSE cfg.maxAudioDuration
  IN IF duration <= 0 THEN "INVALID_DURATION"
     ELSE IF duration >= limit
       THEN (IF mediaType = MEDIA_VIDEO THEN "VIDEO_DURATION_LIMIT" ELSE "AUDIO_DURATION_LIMIT")
     ELSE ""

\* assertDurationForMedia: "" when it returns, else the error code.
assertDurationForMedia(video, mediaType, cfg) ==
  LET duration == video.durationSeconds
      limit == IF mediaType = MEDIA_VIDEO THEN cfg.maxVideoDuration ELSE cfg.maxAudioDuration
  IN IF duration <= 0 THEN "INVALID_DURATION"
     ELSE IF duration > limit
       THEN (IF mediaType = MEDIA_VIDEO THEN "VIDEO_DURATION_LIMIT" ELSE "AUDIO_DURATION_LIMIT")
     ELSE ""

getVideoSupportExclusive(video, cfg) ==
  [audio |-> video.durationSeconds > 0 /\ video.durationSeconds < cfg.maxAudioDuration,
   video |-> video.durationSeconds > 0 /\ video.durationSeconds < cfg.maxVideoDuration]

\* getVideoSupport
getVideoSupport(video, cfg) ==
  [audio |-> video.durationSeconds > 0 /\ video.durationSeconds <= cfg.maxAudioDuration,
   video |-> video.durationSeconds > 0 /\ video.durationSeconds <= cfg.maxVideoDuration]

\* getVideoSupportLabel
getVideoSupportLabel(video, cfg) ==
  LET support == getVideoSupport(video, cfg)
  IN IF support.audio /\ support.video THEN "A/V"
     ELSE IF support.audio THEN "A"
     ELSE IF support.video THEN "V"
     ELSE "-"

\* ---------------------------------------------------------- selection store
\* Map.prototype.get / delete / set on the set of entries of the Map.
MapGet(store, chatId) == {e \in store : e.chatId = chatId}

MapDeleteClears(store, chatId) == {}

MapDelete(store, chatId) == {e \in store : e.chatId # chatId}

MapSetKeepsOld(store, chatId, entry) == store \cup {entry}

MapSet(store, chatId, entry) == MapDelete(store, chatId) \cup {entry}

\* `Date.now() + config.selectionTimeoutSeconds * 1000`
ExpiryStamp(t, cfg) == t + cfg.selectionTimeoutSeconds * 1000

PayloadDropsMediaType(mode, options, defaultMediaType) ==
  [mode |-> mode, options |-> options, defaultMediaType |-> MEDIA_AUDIO]

Payload(mode, options, defaultMediaType) ==
  [mode |-> mode, options |-> options, defaultMediaType |-> defaultMediaType]

setPendingSelection(store, chatId, payload, t, cfg) ==
  MapSet(store, chatId,
         [chatId |-> chatId, mode |-> payload.mode, options |-> payload.options,
          defaultMediaType |-> payload.defaultMediaType,
          expiresAt |-> ExpiryStamp(t, cfg)])

IsExpiredAtDeadline(t, expiresAt) == t >= expiresAt

IsExpiredNever(t, expiresAt) == FALSE

\* `Date.now() > pending.expiresAt`
IsExpired(t, expiresAt) == t > expiresAt

\* getPendingSelection: the entry returned ({} for null) and the Map afterwards.
getPendingSelection(store, chatId, t) ==
  LET found == MapGet(store, chatId)
  IN IF found = {} THEN [result |-> {}, store |-> store]
     ELSE LET pending == CHOOSE e \in found : TRUE
          IN IF IsExpired(t, pending.expiresAt)
             THEN [result |-> {}, store |-> MapDelete(store, chatId)]
             ELSE [result |-> {pending}, store |-> store]

clearPendingSelectionKeeps(store, chatId) == store

clearPendingSelection(store, chatId) == MapDelete(store, chatId)

\* ------------------------------------------------------------ message handler
\* isLikelyUrl: `new URL(value)` succeeds with protocol http: or https:.
\* Approximated on the texts of the model by the scheme prefix.
isLikelyUrl(value) ==
  \/ (StartsWith(value, <<"h", "t", "t", "p", ":", "/", "/">>) /\ Len(value) > 7)
  \/ (StartsWith(value, <<"h", "t", "t", "p", "s", ":", "/", "/">>) /\ Len(value) > 8)

\* A handler suspended on a lookup.
Lookup(chat, stage, mediaType) == [chat |-> chat, stage |-> stage, mediaType |-> mediaType]

\* What one synchronous section of a handler does.
Effect(store, reply, enqueue, spawn) ==
  [store |-> store, reply |-> reply, enqueue |-> enqueue, spawn |-> spawn]

OptionAtOneBased(options, index) ==
  IF index >= 0 /\ index < Len(options) THEN {options[index + 1]} ELSE {}

\* `pending.options[index - 1]`: {} for undefined.
OptionAt(options, index) ==
  IF index - 1 >= 0 /\ index - 1 < Len(options) THEN {options[index]} ELSE {}

handlePendingSelectionClearsFirst(store, chatId, pending, selection, cfg) ==
  LET found == OptionAt(pending.options, selection.index)
  IN IF found = {}
     THEN Effect(store, "invalid_option", <<>>, {})
     ELSE
       LET option == CHOOSE o \in found : TRUE
           failure == assertDurationForMedia(option, selection.mediaType, cfg)
       IN IF pending.mode = "search_results" /\ option.kind = "playlist"
          THEN Effect(clearPendingSelection(store, chatId), "loading_playlist", <<>>,
                      {Lookup(chatId, "playlist", selection.mediaType)})
          ELSE IF failure # ""
            THEN Effect(clearPendingSelection(store, chatId), failure, <<>>, {})
            ELSE Effect(clearPendingSelection(store, chatId), "position",
                        <<[video |-> option, mediaType |-> selection.mediaType]>>, {})

\* handlePendingSelection, with the catch of handleIncomingCommand around it.
handlePendingSelection(store, chatId, pending, selection, cfg) ==
  LET found == OptionAt(pending.options, selection.index)
  IN IF found = {}
     THEN Effect(store, "invalid_option", <<>>, {})
     ELSE
       LET option == CHOOSE o \in found : TRUE
           failure == assertDurationForMedia(option, selection.mediaType, cfg)
       IN IF pending.mode = "search_results" /\ option.kind = "playlist"
          THEN Effect(clearPendingSelection(store, chatId), "loading_playlist", <<>>,
                      {Lookup(chatId, "playlist", selection.mediaType)})
          ELSE IF pending.mode \in {"search_results", "playlist_tracks"}
            THEN (IF failure # ""
                  THEN Effect(store, failure, <<>>, {})
                  ELSE Effect(clearPendingSelection(store, chatId), "position",
                              <<[video |-> option, mediaType |-> selection.mediaType]>>,
                              {}))
          ELSE Effect(store, "none", <<>>, {})

handlePlayCommandKeepsList(store, chatId, query, defaultMediaType) ==
  IF isLikelyUrl(query)
  THEN Effect(store, "validating", <<>>, {Lookup(chatId, "url", defaultMediaType)})
  ELSE Effect(store, "searching", <<>>, {Lookup(chatId, "search", defaultMediaType)})

\* handlePlayCommand up to its first lookup.
handlePlayCommand(store, chatId, query, defaultMediaType) ==
  IF isLikelyUrl(query)
  THEN Effect(clearPendingSelection(store, chatId), "validating", <<>>,
              {Lookup(chatId, "url", defaultMediaType)})
  ELSE Effect(clearPendingSelection(store, chatId), "searching", <<>>,
              {Lookup(chatId, "search", defaultMediaType)})

\* The texts users send.
MessageTexts ==
  {<<"0">>, <<"1">>, <<"2">>, <<"3">>, <<"a", "1">>, <<"V", "2">>, <<"x", "1">>,
   <<"/", "h", "e", "l", "p">>, <<"/", "c", "a", "n", "c", "e", "l">>, <<"/", "p", "l", "a", "y">>,
   <<"/", "p", "l", "a", "y", " ", "q">>, <<"/", "V", "i", "d", "e", "o", " ", "q">>,
   <<"/", "p", "l", "a", "y", " ", "h", "t", "t", "p", ":", "/", "/", "u">>}

MediaTypes == {MEDIA_AUDIO, MEDIA_VIDEO}

\* The texts of the commands sent without query, and the texts they quote:
\* none, blank, a search term, a link.
QuotingTexts == {<<"/", "p", "l", "a", "y">>, <<"/", "V", "i", "d", "e", "o">>}

BlankTexts == {<<>>, <<" ">>}

QuotedTexts == BlankTexts \cup {<<"q">>, <<"h", "t", "t", "p", ":", "/", "/", "u">>}

\* A command followed by a query.
WithQuery(text, query) == text \o <<" ">> \o query

AllTexts ==
  MessageTexts \cup QuotingTexts
  \cup {WithQuery(t, q) : t \in QuotingTexts, q \in QuotedTexts}

\* parseCommand and parseSelectionChoice on the texts of the model.
CommandOf == [text \in AllTexts |-> parseCommand(Trim(text))]

SelectionOf ==
  [text \in AllTexts |->
     [defaultMediaType \in MediaTypes |-> parseSelectionChoice(Trim(text), defaultMediaType)]]

\* handleIncomingCommand up to its first await that waits for a lookup.
handleIncomingCommand(store, chatId, text, t, cfg) ==
  LET normalizedText == Trim(text)
      read == getPendingSelection(store, chatId, t)
      got == read.result
      parsed == CommandOf[text]
      pending == CHOOSE e \in got : TRUE
      selection == IF got = {} THEN {} ELSE SelectionOf[text][pending.defaultMediaType]
  IN IF parsed.type = "cancel"
     THEN (IF got = {} THEN Effect(read.store, "no_pending", <<>>, {})
           ELSE Effect(clearPendingSelection(read.store, chatId), "cancelled", <<>>, {}))
     ELSE IF got # {} /\ selection # {}
       THEN handlePendingSelection(read.store, chatId, pending,
                                   CHOOSE x \in selection : TRUE, cfg)
     ELSE IF got # {} /\ ~StartsWith(normalizedText, <<"/">>)
       THEN Effect(read.store, "send_number", <<>>, {})
     ELSE IF parsed.type = "none" THEN Effect(read.store, "none", <<>>, {})
     ELSE IF parsed.type = "help" THEN Effect(read.store, "help", <<>>, {})
     ELSE IF parsed.type = "unknown" THEN Effect(read.store, "unknown", <<>>, {})
     ELSE IF parsed.error = "EMPTY_QUERY" THEN Effect(read.store, "usage", <<>>, {})
     ELSE handlePlayCommand(read.store, chatId, parsed.query,
                            IF parsed.type = "video" THEN MEDIA_VIDEO ELSE MEDIA_AUDIO)

handleIncomingCommandWithQuoteUntrimmed(store, chatId, text, quotedText, t, cfg) ==
  LET read == getPendingSelection(store, chatId, t)
      parsed == CommandOf[text]
  IN IF parsed.type \in {"play", "video"} /\ parsed.error = "EMPTY_QUERY" /\ Len(quotedText) > 0
     THEN handlePlayCommand(read.store, chatId, quotedText,
                            IF parsed.type = "video" THEN MEDIA_VIDEO ELSE MEDIA_AUDIO)
     ELSE handleIncomingCommand(store, chatId, text, t, cfg)

\* handleIncomingCommand of the version that reads context.quotedText: a
\* /play or /video without query takes the quoted text, trimmed, as its query.
handleIncomingCommandWithQuote(store, chatId, text, quotedText, t, cfg) ==
  LET read == getPendingSelection(store, chatId, t)
      got == read.result
      parsed == CommandOf[text]
      pending == CHOOSE e \in got : TRUE
      selection == IF got = {} THEN {} ELSE SelectionOf[text][pending.defaultMediaType]
      fallbackQuery == Trim(quotedText)
      reachesEmptyQuery ==
        /\ parsed.type \in {"play", "video"}
        /\ parsed.error = "EMPTY_QUERY"
        /\ ~(got # {} /\ selection # {})
  IN IF reachesEmptyQuery /\ Len(fallbackQuery) > 0
     THEN handlePlayCommand(read.store, chatId, fallbackQuery,
                            IF parsed.type = "video" THEN MEDIA_VIDEO ELSE MEDIA_AUDIO)
     ELSE handleIncomingCommand(store, chatId, text, t, cfg)

\* processSelectedMedia catches the failures of the download and of the send
\* and reports them with a reply. Replies are taken as delivered here, so the
\* promise of a media task is fulfilled; tasks that reject or throw are the
\* tasks of QueueSpec.
MediaTaskBehaviours == {"resolve"}

\* The index a text asks for when it has the shape of a selection reply.
AskedIndex(text) ==
  LET selection == SelectionOf[text][MEDIA_AUDIO]
  IN IF selection = {} THEN -1 ELSE (CHOOSE x \in selection : TRUE).index

enqueueMediaJobAsAudio(chatId, video, mediaType, behaviour) ==
  QueueAdd(Task(behaviour, chatId, video, MEDIA_AUDIO))

\* enqueueMediaJob
enqueueMediaJob(chatId, video, mediaType, behaviour) ==
  QueueAdd(Task(behaviour, chatId, video, mediaType))

Enqueue(chatId, enqueue) ==
  IF enqueue = <<>> THEN UNCHANGED qvars
  ELSE \E b \in MediaTaskBehaviours :
         enqueueMediaJob(chatId, enqueue[1].video, enqueue[1].mediaType, b)

\* A message arrives: messages.upsert calls handleIncomingCommand.
Receive(chatId, text) ==
  LET eff == handleIncomingCommand(pendingSelections, chatId, text, now, config)
      read == getPendingSelection(pendingSelections, chatId, now)
  IN /\ received < MaxMessages
     /\ received' = received + 1
     /\ eff.spawn \cap inflight = {}
     /\ pendingSelections' = eff.store
     /\ inflight' = inflight \cup eff.spawn
     /\ Enqueue(chatId, eff.enqueue)
     /\ lastOp' = Op("message", chatId, AskedIndex(text), read.result,
                     read.store # pendingSelections, {}, {}, eff.reply,
                     IF read.result = {} THEN {}
                     ELSE SelectionOf[text][(CHOOSE e \in read.result : TRUE).defaultMediaType],
                     {})
     /\ UNCHANGED <<config, now, jvars>>

\* A message arrives whose context carries quotedText, the text of the message
\* it replies to (empty when it replies to none).
ReceiveQuoted(chatId, text, quotedText) ==
  LET eff == handleIncomingCommandWithQuote(pendingSelections, chatId, text, quotedText,
                                            now, config)
      read == getPendingSelection(pendingSelections, chatId, now)
  IN /\ received < MaxMessages
     /\ received' = received + 1
     /\ eff.spawn \cap inflight = {}
     /\ pendingSelections' = eff.store
     /\ inflight' = inflight \cup eff.spawn
     /\ Enqueue(chatId, eff.enqueue)
     /\ lastOp' = Op("message", chatId, AskedIndex(text), read.result,
                     read.store # pendingSelections, {}, {}, eff.reply,
                     IF read.result = {} THEN {}
                     ELSE SelectionOf[text][(CHOOSE e \in read.result : TRUE).defaultMediaType],
                     {[text |-> text, quotedText |-> quotedText]})
     /\ UNCHANGED <<config, now, jvars>>

\* handlePlayCommand resumes when searchMediaOptions answers (or fails).
SearchDone(op, result, failed) ==
  /\ op \in inflight
  /\ op.stage = "search"
  /\ LET options == searchMediaOptions(result, config)
         payload == Payload("search_results", options, op.mediaType)
         ok == ~failed /\ options # <<>>
     IN /\ pendingSelections' =
             IF ok THEN setPendingSelection(pendingSelections, op.chat, payload, now, config)
                   ELSE pendingSelections
        /\ lastOp' = Op("search", op.chat, -1, {}, FALSE, IF ok THEN {payload} ELSE {},
                        IF ok THEN MapGet(pendingSelections, op.chat) ELSE {},
                        IF ok THEN "list" ELSE IF failed THEN "error" ELSE "NOT_FOUND", {}, {})
  /\ inflight' = inflight \ {op}
  /\ UNCHANGED <<qvars, config, now, received, jvars>>

\* showPlaylistTracks resumes when getPlaylistOptions answers (or fails).
PlaylistDone(op, result, failed) ==
  /\ op \in inflight
  /\ op.stage = "playlist"
  /\ LET options == getPlaylistOptions(result, config)
         payload == Payload("playlist_tracks", options, op.mediaType)
         ok == ~failed /\ options # <<>>
     IN /\ pendingSelections' =
             IF ok THEN setPendingSelection(pendingSelections, op.chat, payload, now, config)
                   ELSE pendingSelections
        /\ lastOp' = Op("playlist", op.chat, -1, {}, FALSE, IF ok THEN {payload} ELSE {},
                        IF ok THEN MapGet(pendingSelections, op.chat) ELSE {},
                        IF ok THEN "list" ELSE IF failed THEN "error"
                        ELSE "PLAYLIST_NO_VALID_VIDEOS", {}, {})
  /\ inflight' = inflight \ {op}
  /\ UNCHANGED <<qvars, config, now, received, jvars>>

\* handlePlayCommand resumes when getVideoFromInput answers: a video, the
\* PLAYLIST_URL_DETECTED error, or another error.
UrlDone(op, outcome, video) ==
  /\ op \in inflight
  /\ op.stage = "url"
  /\ LET lookupFailure == assertVideoDuration(video, getMaxSearchDuration(config))
         failure == IF outcome = "error" THEN "error"
                    ELSE IF lookupFailure # "" THEN lookupFailure
                    ELSE assertDurationForMedia(video, op.mediaType, config)
         next == Lookup(op.chat, "playlist", op.mediaType)
     IN /\ outcome = "playlist" => next \notin inflight
        /\ inflight' = IF outcome = "playlist" THEN (inflight \ {op}) \cup {next}
                                              ELSE inflight \ {op}
        /\ Enqueue(op.chat, IF outcome = "video" /\ failure = ""
                            THEN <<[video |-> video, mediaType |-> op.mediaType]>>
                            ELSE <<>>)
        /\ lastOp' = Op("url", op.chat, -1, {}, FALSE, {}, {},
                        IF outcome = "playlist" THEN "loading_playlist"
                        ELSE IF failure = "" THEN "position" ELSE failure, {}, {})
  /\ UNCHANGED <<config, now, pendingSelections, received, jvars>>

\* Time passes.
Tick ==
  /\ now + 1000 <= MaxNowSeconds * 1000
  /\ now' = now + 1000
  /\ lastOp' = NoOp
  /\ UNCHANGED <<qvars, config, pendingSelections, inflight, received, jvars>>

\* ------------------------------------------------------------ the downloader
\* config.js: the default size ceilings, in bytes: 20 * 1024 * 1024 for audio,
\* 100 * 1024 * 1024 for video.
maxAudioFileSize == 20971520

maxVideoFileSize == 104857600

\* The video options of downloadVideo, 0 for undefined: index.js leaves them
\* undefined; the other value is the tightest setting of the README's
\* VIDEO_MAX_HEIGHT, VIDEO_CRF and audio bitrate.
NoVideoOptions == [videoMaxHeight |-> 0, videoCrf |-> 0, videoAudioBitrateKbps |-> 0]

TightestVideoOptions == [videoMaxHeight |-> 240, videoCrf |-> 40, videoAudioBitrateKbps |-> 32]

\* Configured options around the edges of the fallback profile: the widest
\* profile, a profile at the floor that is not the tightest one, and profiles
\* one step from the floor in a single field.
EdgeVideoOptions ==
  {[videoMaxHeight |-> 720, videoCrf |-> 18, videoAudioBitrateKbps |-> 192],
   [videoMaxHeight |-> 360, videoCrf |-> 40, videoAudioBitrateKbps |-> 48],
   [videoMaxHeight |-> 361, videoCrf |-> 40, videoAudioBitrateKbps |-> 48],
   [videoMaxHeight |-> 240, videoCrf |-> 39, videoAudioBitrateKbps |-> 32],
   [videoMaxHeight |-> 240, videoCrf |-> 40, videoAudioBitrateKbps |-> 49]}

VideoOptions == {NoVideoOptions, TightestVideoOptions} \cup EdgeVideoOptions

Min(a, b) == IF a < b THEN a ELSE b

Max(a, b) == IF a > b THEN a ELSE b

clampNumber(value, min, max) == Max(min, Min(max, value))

\* `Number(value) || fallback`
OrDefault(value, fallback) == IF value = 0 THEN fallback ELSE value

Profile(maxHeight, crf, audioBitrateKbps) ==
  [maxHeight |-> maxHeight, crf |-> crf, audioBitrateKbps |-> audioBitrateKbps]

buildVideoCompressionProfileFlatCrf(durationSeconds, options) ==
  LET baseHeight == clampNumber(OrDefault(options.videoMaxHeight, 480), 240, 720)
      baseCrf == clampNumber(OrDefault(options.videoCrf, 30), 18, 40)
      baseAudioBitrate == clampNumber(OrDefault(options.videoAudioBitrateKbps, 64), 32, 192)
      duration == Max(0, durationSeconds)
  IN IF duration >= 7200
       THEN Profile(Min(baseHeight, 240), clampNumber(baseCrf + 2, 18, 40),
                    Min(baseAudioBitrate, 48))
     ELSE IF duration >= 3600
       THEN Profile(Min(baseHeight, 360), baseCrf, Min(baseAudioBitrate, 56))
     ELSE IF duration >= 1800
       THEN Profile(Min(baseHeight, 480), clampNumber(baseCrf + 1, 18, 40),
                    Min(baseAudioBitrate, 64))
     ELSE Profile(baseHeight, baseCrf, baseAudioBitrate)

buildVideoCompressionProfile(durationSeconds, options) ==
  LET baseHeight == clampNumber(OrDefault(options.videoMaxHeight, 480), 240, 720)
      baseCrf == clampNumber(OrDefault(options.videoCrf, 30), 18, 40)
      baseAudioBitrate == clampNumber(OrDefault(options.videoAudioBitrateKbps, 64), 32, 192)
      duration == Max(0, durationSeconds)
  IN IF duration >= 7200
       THEN Profile(Min(baseHeight, 240), clampNumber(baseCrf + 2, 18, 40),
                    Min(baseAudioBitrate, 48))
     ELSE IF duration >= 3600
       THEN Profile(Min(baseHeight, 360), clampNumber(baseCrf + 1, 18, 40),
                    Min(baseAudioBitrate, 56))
     ELSE IF duration >= 1800
       THEN Profile(Min(baseHeight, 480), clampNumber(baseCrf + 1, 18, 40),
                    Min(baseAudioBitrate, 64))
     ELSE Profile(baseHeight, baseCrf, baseAudioBitrate)

buildFallbackVideoCompressionProfileNeverNull(profile) ==
  {Profile(Max(240, Min(profile.maxHeight, 360)),
           clampNumber(profile.crf + 2, 18, 40),
           Max(32, Min(profile.audioBitrateKbps, 48)))}

\* buildFallbackVideoCompressionProfile: {} for null.
buildFallbackVideoCompressionProfile(profile) ==
  LET fallback == Profile(Max(240, Min(profile.maxHeight, 360)),
                          clampNumber(profile.crf + 2, 18, 40),
                          Max(32, Min(profile.audioBitrateKbps, 48)))
  IN IF fallback # profile THEN {fallback} ELSE {}

\* The files of one job in the download directory: "partial" for the
\* artefacts of an unfinished download, "raw" for the downloaded file with one
\* of the expected extensions, "stray" for a downloaded file with another
\* extension, "wa" for the transcoded "-wa.mp4" file.
FileNames == {"partial", "raw", "stray", "wa"}

\* A file of the download directory whose name starts with another base name.
OtherFileNames == {"other"}

safeUnlinkSkips(files, filePath) == files

\* safeUnlink: nothing to do for a null path or a missing file.
safeUnlink(files, filePath) == files \ {filePath}

safeRemoveByPrefixWholeDirectory(files) == {}

\* safeRemoveByPrefix: every file of the job starts with its base name.
safeRemoveByPrefix(files) == files \ FileNames

ExceedsLimitNever(size, maxFileSize) == FALSE

\* `stats.size > maxFileSize`
ExceedsLimit(size, maxFileSize) == size > maxFileSize

RetryWithFallbackAlways(size, maxFileSize, fallbackProfile) == fallbackProfile # {}

\* downloadVideo transcodes again: the output is too large and a fallback exists.
RetryWithFallback(size, maxFileSize, fallbackProfile) ==
  ExceedsLimit(size, maxFileSize) /\ fallbackProfile # {}

\* ------------------------------------------------------- yt-dlp diagnostics
\* The phrases that isYtDlpAuthError, isYtDlpChallengeError and
\* isYtDlpFormatUnavailableError look for.
SignInPhrase == "sign in to confirm you're not a bot"

AuthPhrases ==
  {SignInPhrase, "use --cookies-from-browser or --cookies for the authentication",
   "this video is age-restricted and only available on youtube"}

ChallengePhrases ==
  {"n challenge solving failed", "only images are available for download"}

FormatPhrases == {"requested format is not available"}

\* How the apostrophe of a phrase is written in the diagnostic: the ASCII
\* character, the character U+2019 that yt-dlp prints, or the three characters
\* that U+2019 becomes when its UTF-8 bytes are read as Windows-1252.
Apostrophes == {"ascii", "U+2019", "mojibake"}

\* A piece of the diagnostic output: a phrase, how its apostrophe is written
\* ("none" for a phrase without) and whether it has upper-case letters.
StderrLine(phrase, apostrophe, upper) ==
  [phrase |-> phrase, apostrophe |-> apostrophe, upper |-> upper]

StderrLines ==
  {StderrLine(SignInPhrase, a, u) : a \in Apostrophes, u \in BOOLEAN}
  \cup {StderrLine(p, "none", u) :
          p \in (AuthPhrases \ {SignInPhrase}) \cup ChallengePhrases \cup FormatPhrases
                 \cup {"http error 403"},
          u \in BOOLEAN}

\* The diagnostics of at most two pieces.
Stderrs == {{}} \cup {{a, b} : a, b \in StderrLines}

\* `String(stderr || '').toLowerCase()`
StderrToLowerCase(stderr) == {[l EXCEPT !.upper = FALSE] : l \in stderr}

\* `.replace(/<U+2019 read as Windows-1252>/g, "'")`
ReplaceApostrophe(output) ==
  {[l EXCEPT !.apostrophe = IF @ = "mojibake" THEN "ascii" ELSE @] : l \in output}

\* `output.includes(phrase)` for a lower-case phrase written with ASCII characters.
Includes(output, phrase) ==
  \E l \in output : l.phrase = phrase /\ ~l.upper /\ l.apostrophe \in {"ascii", "none"}

isYtDlpAuthError(stderr) ==
  LET output == ReplaceApostrophe(StderrToLowerCase(stderr))
  IN \E p \in AuthPhrases : Includes(output, p)

isYtDlpChallengeError(stderr) ==
  LET output == StderrToLowerCase(stderr)
  IN \E p \in ChallengePhrases : Includes(output, p)

isYtDlpFormatUnavailableError(stderr) ==
  LET output == StderrToLowerCase(stderr)
  IN \E p \in FormatPhrases : Includes(output, p)

\* Why spawn may fail: the binary is missing, or it may not be executed.
SpawnErrnos == {"ENOENT", "EACCES"}

\* The code of the DownloadError of a failed invocation: runYtDlp rejects when
\* the process could not be spawned, downloadWithArgs throws for `code !== 0`.
ytDlpFailure(outcome) ==
  IF outcome.exit = "error"
    THEN (IF outcome.errno = "ENOENT" THEN "YTDLP_NOT_FOUND" ELSE "YTDLP_ERROR")
  ELSE IF isYtDlpAuthError(outcome.stderr) THEN "YTDLP_AUTH_REQUIRED"
  ELSE IF isYtDlpChallengeError(outcome.stderr) THEN "YTDLP_CHALLENGE_FAILED"
  ELSE IF isYtDlpFormatUnavailableError(outcome.stderr) THEN "YTDLP_FORMAT_UNAVAILABLE"
  ELSE "YTDLP_ERROR"

\* The diagnostics of the jobs: none, a bot check that names the cookies
\* options, an unsolved challenge with an unavailable format.
StderrSamples ==
  {{},
   {StderrLine(SignInPhrase, "U+2019", TRUE),
    StderrLine("use --cookies-from-browser or --cookies for the authentication", "none", TRUE)},
   {StderrLine("n challenge solving failed", "none", FALSE),
    StderrLine("requested format is not available", "none", TRUE)}}

\* The sizes a finished file may have, around a ceiling.
FileSizes(maxFileSize) == {maxFileSize - 1, maxFileSize, maxFileSize + 1}

\* An error object: its class, its `code` property ("" for undefined) and what
\* its message says.
ErrorObject(class, code, message) == [class |-> class, code |-> code, message |-> message]

NoError == ErrorObject("none", "", "")

\* `new DownloadError(code, ...)`
DownloadError(code) == ErrorObject("DownloadError", code, "other")

\* `new YoutubeError(code, ...)`
YoutubeError(code) == ErrorObject("YoutubeError", code, "other")

\* whatsapp.js: `throw new Error('WHATSAPP_NOT_CONNECTED')`, the condition is
\* the message of a plain Error.
NotConnectedError == ErrorObject("Error", "", "WHATSAPP_NOT_CONNECTED")

\* What the socket's sendMessage throws: a plain Error whose message says the
\* media is too large, or says something else.
SendError(message) == ErrorObject("Error", "", message)

\* How a reply capability may end.
ReplyOutcomes == {"sent", "not_connected", "failed"}

\* The error a reply capability throws.
ReplyThrows(outcome) ==
  IF outcome = "not_connected" THEN NotConnectedError
  ELSE IF outcome = "size" THEN SendError("too large")
  ELSE SendError("other")

\* isWhatsAppSizeError
isWhatsAppSizeError(error) == error.message = "too large"

\* mapPlayError: the user-facing line of an error.
mapPlayError(error) ==
  IF error.class = "YoutubeError" THEN
    IF error.code = "INVALID_URL" THEN "URL invalida"
    ELSE IF error.code = "NOT_FOUND" THEN "Nada encontrado para essa busca"
    ELSE IF error.code = "DURATION_LIMIT" THEN "Duracao acima do limite de busca"
    ELSE IF error.code = "AUDIO_DURATION_LIMIT" THEN "Audio acima do limite"
    ELSE IF error.code = "VIDEO_DURATION_LIMIT" THEN "Video acima do limite"
    ELSE IF error.code = "PLAYLIST_NOT_FOUND" THEN "Playlist nao encontrada"
    ELSE IF error.code = "PLAYLIST_NO_VALID_VIDEOS" THEN "Playlist sem faixas validas"
    ELSE "Falha ao consultar o YouTube"
  ELSE IF error.class = "DownloadError" THEN
    IF error.code = "YTDLP_NOT_FOUND" THEN "yt-dlp nao encontrado no servidor"
    ELSE IF error.code = "FFMPEG_NOT_FOUND" THEN "ffmpeg nao encontrado no servidor"
    ELSE IF error.code = "FFMPEG_ERROR" THEN "Falha ao converter o video"
    ELSE IF error.code = "FILE_TOO_LARGE" THEN "O arquivo final ficou muito grande"
    ELSE "Erro ao baixar/converter midia com yt-dlp"
  ELSE IF error.code = "WHATSAPP_NOT_CONNECTED" THEN "WhatsApp temporariamente desconectado"
  ELSE IF error.code = "WHATSAPP_SEND_AUDIO_FAILED" THEN "Falha ao enviar o audio no WhatsApp"
  ELSE IF error.code = "WHATSAPP_SEND_VIDEO_FAILED" THEN "Falha ao enviar o video no WhatsApp"
  ELSE "Erro interno ao processar sua solicitacao"

NoInput ==
  [mediaType |-> "none", durationSeconds |-> 0, options |-> NoVideoOptions, maxFileSize |-> 0]

\* How an invocation of yt-dlp ended: `exit` is "error" when the process could
\* not be spawned (`errno` says why), "nonzero" or "zero" for its exit code;
\* `stderr` is its diagnostic output and `created` the files it left.
YtDlpOutcome(exit, errno, stderr, created) ==
  [exit |-> exit, errno |-> errno, stderr |-> stderr, created |-> created]

\* yt-dlp not invoked yet.
NoYtDlp == YtDlpOutcome("none", "", {}, {})

\* processSelectedMedia not called yet.
NoRun ==
  [pc |-> "idle", input |-> NoInput, files |-> {}, downloads |-> 0, transcodes |-> <<>>,
   stats |-> <<>>, returned |-> {}, outputFile |-> "", error |-> "", errorFrom |-> "",
   reported |-> 0, settle |-> "", cause |-> NoError, line |-> "", ytdlp |-> NoYtDlp]

\* An error reaches the catch of processSelectedMedia, which sends the error line.
\* `cause` is the error as it was thrown, `error` the error the catch receives.
CaughtAs(r, code, from, cause, error) ==
  [r EXCEPT !.pc = "errReply", !.error = code, !.errorFrom = from, !.cause = cause,
            !.line = mapPlayError(error)]

\* The same for a DownloadError raised by the downloader.
Caught(r, code, from) == CaughtAs(r, code, from, DownloadError(code), DownloadError(code))

\* The finally of processSelectedMedia, then the promise of the task settles.
Ended(r, settle) ==
  [r EXCEPT !.pc = "done", !.files = safeUnlink(@, r.outputFile), !.settle = settle]

\* ------------------------------------------------------ processSelectedMedia
\* The task of a media job is invoked: it sends the download notice and waits.
StartMedia(mediaType, durationSeconds, options, directory) ==
  /\ run.pc = "idle"
  /\ run' = [NoRun EXCEPT
               !.pc = "notice",
               !.files = directory,
               !.input = [mediaType |-> mediaType, durationSeconds |-> durationSeconds,
                          options |-> options,
                          maxFileSize |-> IF mediaType = MEDIA_VIDEO THEN maxVideoFileSize
                                                                     ELSE maxAudioFileSize]]
  /\ UNCHANGED <<qvars, avars, handlers, replying, call>>

\* The notice was sent, and downloadAudio / downloadVideo spawns yt-dlp; or the
\* reply failed.
NoticeReplied(outcome) ==
  /\ run.pc = "notice"
  /\ run' = IF outcome = "sent" THEN [run EXCEPT !.pc = "ytdlp", !.downloads = @ + 1]
            ELSE CaughtAs(run, "REPLY_FAILED", "reply", ReplyThrows(outcome),
                          ReplyThrows(outcome))
  /\ UNCHANGED <<qvars, avars, handlers, replying, call>>

\* What yt-dlp may leave behind: nothing when it could not start; anything
\* when it fails; when it exits with 0, the file with an expected extension,
\* a file with another extension, or nothing.
YtDlpOutcomes ==
  {YtDlpOutcome("error", errno, {}, {}) : errno \in SpawnErrnos}
  \cup {YtDlpOutcome("nonzero", "", stderr, c) :
          stderr \in StderrSamples, c \in {{}, {"partial"}, {"partial", "raw"}}}
  \cup {YtDlpOutcome("zero", "", {}, c) : c \in {{"raw"}, {"stray"}, {}}}

\* downloadWithArgs after `await runYtDlp(args)`, and downloadVideo up to its
\* first runFfmpeg.
YtDlpDone(outcome, size) ==
  /\ run.pc = "ytdlp"
  /\ LET written == run.files \cup outcome.created
         max == run.input.maxFileSize
         skipSizeValidation == run.input.mediaType = MEDIA_VIDEO
     IN run' =
          IF outcome.exit = "error"
            THEN Caught([run EXCEPT !.ytdlp = outcome], ytDlpFailure(outcome), "download")
          ELSE IF outcome.exit = "nonzero"
            THEN Caught([run EXCEPT !.files = safeRemoveByPrefix(written),
                                    !.ytdlp = outcome],
                        ytDlpFailure(outcome), "download")
          ELSE IF "raw" \notin written
            THEN Caught([run EXCEPT !.files = written, !.ytdlp = outcome],
                        "OUTPUT_NOT_FOUND", "download")
          ELSE IF ~skipSizeValidation /\ ExceedsLimit(size, max)
            THEN Caught([run EXCEPT !.files = safeUnlink(written, "raw"),
                                    !.stats = Append(@, size), !.ytdlp = outcome],
                        "FILE_TOO_LARGE", "download")
          ELSE IF ~skipSizeValidation
            THEN [run EXCEPT !.pc = "send", !.files = written, !.stats = Append(@, size),
                             !.returned = {[filePath |-> "raw", fileSize |-> size]},
                             !.outputFile = "raw", !.ytdlp = outcome]
          ELSE [run EXCEPT
                  !.pc = "ffmpeg1", !.files = written, !.ytdlp = outcome,
                  !.transcodes =
                     <<[input |-> "raw",
                        profile |-> buildVideoCompressionProfile(run.input.durationSeconds,
                                                                 run.input.options)]>>]
  /\ UNCHANGED <<qvars, avars, handlers, replying, call>>

\* How ffmpeg may end: it could not start; it failed, with or without an
\* output file written; it succeeded; it exited with 0 and left no output file.
FfmpegOutcomes ==
  {[exit |-> "error", created |-> {}], [exit |-> "nonzero", created |-> {}],
   [exit |-> "nonzero", created |-> {"wa"}], [exit |-> "zero", created |-> {"wa"}],
   [exit |-> "zero", created |-> {}]}

\* What `fs.promises.stat` throws for a missing file.
StatError == ErrorObject("Error", "ENOENT", "other")

\* downloadVideo after `await runFfmpeg(...)`, first or fallback pass, with its
\* finally.
FfmpegDone(outcome, size) ==
  /\ run.pc \in {"ffmpeg1", "ffmpeg2"}
  /\ LET written == run.files \cup outcome.created
         max == run.input.maxFileSize
         fallbackProfile == buildFallbackVideoCompressionProfile(run.transcodes[1].profile)
     IN run' =
          IF outcome.exit = "error"
            THEN Caught([run EXCEPT !.files = safeUnlink(written, "raw")],
                        "FFMPEG_NOT_FOUND", "download")
          ELSE IF outcome.exit = "nonzero"
            THEN Caught([run EXCEPT !.files = safeUnlink(written, "raw")],
                        "FFMPEG_ERROR", "download")
          ELSE IF "wa" \notin written
            THEN CaughtAs([run EXCEPT !.files = safeUnlink(written, "raw")],
                          "ENOENT", "download", StatError, StatError)
          ELSE IF run.pc = "ffmpeg1" /\ RetryWithFallback(size, max, fallbackProfile)
            THEN [run EXCEPT
                    !.pc = "ffmpeg2", !.files = safeUnlink(written, "wa"),
                    !.stats = Append(@, size),
                    !.transcodes = Append(@, [input |-> "raw",
                                              profile |-> CHOOSE f \in fallbackProfile : TRUE])]
          ELSE IF ExceedsLimit(size, max)
            THEN Caught([run EXCEPT !.files = safeUnlink(safeUnlink(written, "wa"), "raw"),
                                    !.stats = Append(@, size)],
                        "FILE_TOO_LARGE", "download")
          ELSE [run EXCEPT !.pc = "send", !.files = safeUnlink(written, "raw"),
                           !.stats = Append(@, size),
                           !.returned = {[filePath |-> "wa", fileSize |-> size]},
                           !.outputFile = "wa"]
  /\ UNCHANGED <<qvars, avars, handlers, replying, call>>

\* replyAudio / replyVideo ended: sent, refused for its size, or failed.
SendDone(outcome) ==
  /\ run.pc = "send"
  /\ run' = IF outcome = "sent" THEN [run EXCEPT !.pc = "okReply"]
            ELSE IF isWhatsAppSizeError(ReplyThrows(outcome))
              THEN CaughtAs(run, "FILE_TOO_LARGE", "send", ReplyThrows(outcome),
                            DownloadError("FILE_TOO_LARGE"))
            ELSE CaughtAs(run, "WHATSAPP_SEND_FAILED", "send", ReplyThrows(outcome),
                          [ReplyThrows(outcome) EXCEPT
                             !.code = IF run.input.mediaType = MEDIA_VIDEO
                                      THEN "WHATSAPP_SEND_VIDEO_FAILED"
                                      ELSE "WHATSAPP_SEND_AUDIO_FAILED"])
  /\ UNCHANGED <<qvars, avars, handlers, replying, call>>

\* The success line was sent, or that reply failed.
OkReplied(outcome) ==
  /\ run.pc = "okReply"
  /\ run' = IF outcome = "sent" THEN Ended(run, "resolve")
            ELSE CaughtAs(run, "REPLY_FAILED", "reply", ReplyThrows(outcome),
                          ReplyThrows(outcome))
  /\ UNCHANGED <<qvars, avars, handlers, replying, call>>

\* The error line of the catch was sent, or that reply failed and the error
\* leaves processSelectedMedia.
ErrReplied(outcome) ==
  /\ run.pc = "errReply"
  /\ run' = IF outcome = "sent" THEN Ended([run EXCEPT !.reported = @ + 1], "resolve")
                  ELSE Ended(run, "reject")
  /\ UNCHANGED <<qvars, avars, handlers, replying, call>>

\* ------------------------------------------------------------ enqueueMediaJob
\* How the promise of processSelectedMedia ends: fulfilled, or rejected when
\* the error reply of its catch fails (ErrReplied); an async function never
\* throws synchronously.
SettleOutcomes == {"resolve", "reject"}

\* A handle was rejected while no handler was attached to it: Node raises
\* unhandledRejection, and with no listener for it the process terminates.
UnhandledRejection ==
  \E k \in 1..Len(settled) : settled[k].how = "rejected" /\ settled[k].id \notin handlers

\* enqueueMediaJob up to `await context.replyText(...)`: the job is added (and
\* its task invoked when the queue is idle), the position reply is on its way
\* and the handle has no rejection handler yet.
EnqueueJob(chatId, mediaType, behaviour) ==
  /\ ~UnhandledRejection
  /\ enqueueMediaJob(chatId, Video(100), mediaType, behaviour)
  /\ replying' = replying \cup {nextId}
  /\ lastOp' = NoOp
  /\ UNCHANGED <<config, now, pendingSelections, inflight, received, run, handlers, call>>

\* The position reply ended. Delivered: enqueueMediaJob goes on to
\* `promise.catch(...)`. Failed: the await throws and enqueueMediaJob ends
\* without attaching the handler.
PositionReplied(id, ok) ==
  /\ ~UnhandledRejection
  /\ id \in replying
  /\ replying' = replying \ {id}
  /\ handlers' = IF ok THEN handlers \cup {id} ELSE handlers
  /\ lastOp' = NoOp
  /\ UNCHANGED <<qvars, config, now, pendingSelections, inflight, received, run, call>>

\* The task of a media job settles, in a process that is still alive.
MediaTaskFinish == ~UnhandledRejection /\ TaskFinish

\* The queue loop resumes, in a process that is still alive.
MediaLoopResume == ~UnhandledRejection /\ LoopResume

\* ------------------------------------------------------------ pure functions
\* A call of a pure function with its arguments and what it returned.
Call(fn, args, result) == [fn |-> fn, args |-> args, result |-> result]

NoCall == Call("none", <<>>, {})

\* `Number(video?.durationSeconds) || 0`, the field as a set: {} for a missing
\* or non-numeric value.
NumberOrZero(raw) == IF raw = {} THEN 0 ELSE CHOOSE n \in raw : TRUE

\* The durations assertDurationForMedia is called with: none, 0, and the
\* values around each ceiling.
RawDurations ==
  {{}, {0}, {1}} \cup {{c + d} : c \in {1200, 1800, 7200}, d \in {-1, 0, 1}}

\* handlePendingSelection / the link branch of handlePlayCommand call
\* assertDurationForMedia(option, mediaType).
CallAssertDuration(raw, mediaType) ==
  /\ call.fn = "none"
  /\ call' = Call("assertDurationForMedia", <<raw, mediaType>>,
                  assertDurationForMedia(Video(NumberOrZero(raw)), mediaType, config))
  /\ UNCHANGED <<qvars, avars, run, handlers, replying>>

\* The durations of the candidates that are listed: those of
\* assertDurationForMedia and a negative one.
LabelDurations == RawDurations \cup {{-1}}

\* A candidate is listed with its support label (formatVideoOption), and a
\* reply then selects it for either media type.
CallGetVideoSupportLabel(raw) ==
  /\ call.fn = "none"
  /\ call' = Call("getVideoSupportLabel", <<raw>>,
                  [label |-> getVideoSupportLabel(Video(NumberOrZero(raw)), config),
                   audio |-> assertDurationForMedia(Video(NumberOrZero(raw)), MEDIA_AUDIO,
                                                    config),
                   video |-> assertDurationForMedia(Video(NumberOrZero(raw)), MEDIA_VIDEO,
                                                    config)])
  /\ UNCHANGED <<qvars, avars, run, handlers, replying>>

\* Source durations around the thresholds of the tiers.
TierDurations == {-1, 0, 1799, 1800, 3599, 3600, 7199, 7200, 9000}

\* Configured options outside the bounds, above and below.
OutOfBoundsVideoOptions ==
  {[videoMaxHeight |-> 1080, videoCrf |-> 10, videoAudioBitrateKbps |-> 256],
   [videoMaxHeight |-> 100, videoCrf |-> 50, videoAudioBitrateKbps |-> 16]}

\* downloadVideo builds the profile of two sources under the same configuration.
CallBuildVideoCompressionProfile(shorter, longer, options) ==
  /\ call.fn = "none"
  /\ shorter <= longer
  /\ call' = Call("buildVideoCompressionProfile", <<shorter, longer, options>>,
                  <<buildVideoCompressionProfile(shorter, options),
                    buildVideoCompressionProfile(longer, options)>>)
  /\ UNCHANGED <<qvars, avars, run, handlers, replying>>

\* Every text of at most MaxTextLen characters over an alphabet.
TextsOver(alphabet) ==
  UNION {[1..n -> alphabet] : n \in 0..MaxTextLen}

\* The texts parseSelectionChoice is called with: short texts of digits, media
\* letters in both cases, another letter and spaces, and the media words.
SelectionTexts ==
  TextsOver({"0", "1", "a", "v", "V", "x", " "})
  \cup {<<"a", "u", "d", "i", "o", "3">>, <<"3", "v", "i", "d", "e", "o">>,
        <<"V", "i", "d", "e", "o", " ", "1", "2">>, <<"2", " ", "A", "U", "D", "I", "O">>,
        <<"a", "u", "d", "i", "o", "s", "1">>, <<"1", "v", "i", "d">>,
        <<"a", "1", ".", "5">>, <<"-", "1">>}

\* handleIncomingCommand calls parseSelectionChoice(normalizedText, default).
CallParseSelectionChoice(text, defaultMediaType) ==
  /\ call.fn = "none"
  /\ call' = Call("parseSelectionChoice", <<text, defaultMediaType>>,
                  parseSelectionChoice(text, defaultMediaType))
  /\ UNCHANGED <<qvars, avars, run, handlers, replying>>

\* The texts parseCommand is called with: a command word in some case, or
\* another word, after optional leading space and before some rest; and every
\* short text over a slash, a letter in both cases and the space.
CommandWords ==
  {CmdHelp, CmdCancel, CmdPlay, CmdVideo,
   <<"/", "H", "e", "L", "p">>, <<"/", "C", "A", "N", "C", "E", "L">>,
   <<"/", "P", "l", "a", "Y">>, <<"/", "V", "I", "D", "E", "O">>,
   <<"/", "s", "t", "o", "p">>, <<"/", "p", "l", "a", "y", "s">>, <<"/">>,
   <<"p", "l", "a", "y">>, <<"h", "e", "l", "p">>}

CommandRests ==
  {<<>>, <<" ">>, <<" ", "q">>, <<" ", "A", "b", " ">>, <<" ", " ", "A", " ", "b">>,
   <<" ", "/", "h", "e", "l", "p">>}

CommandTexts ==
  {lead \o word \o rest : lead \in {<<>>, <<" ">>}, word \in CommandWords,
                          rest \in CommandRests}
  \cup TextsOver({"/", "p", "P", " "})

\* handleIncomingCommand calls parseCommand(normalizedText).
CallParseCommand(rawText) ==
  /\ call.fn = "none"
  /\ call' = Call("parseCommand", <<rawText>>, parseCommand(rawText))
  /\ UNCHANGED <<qvars, avars, run, handlers, replying>>

\* The invocations of yt-dlp that fail: no process, or a non-zero exit code.
FailedInvocations ==
  {YtDlpOutcome("error", errno, {}, {}) : errno \in SpawnErrnos}
  \cup {YtDlpOutcome("nonzero", "", stderr, {}) : stderr \in Stderrs}

\* downloadWithArgs runs yt-dlp and the invocation fails.
CallYtDlpFailure(outcome) ==
  /\ call.fn = "none"
  /\ call' = Call("ytDlpFailure", <<outcome>>, ytDlpFailure(outcome))
  /\ UNCHANGED <<qvars, avars, run, handlers, replying>>

\* ------------------------------------------------------------ specifications
QInit ==
  /\ items = <<>>
  /\ running = FALSE
  /\ current = 0
  /\ awaited = "none"
  /\ executing = <<>>
  /\ started = <<>>
  /\ finished = <<>>
  /\ settled = <<>>
  /\ removed = <<>>
  /\ addLog = <<>>
  /\ nextId = 1

AInit ==
  /\ now = 0
  /\ pendingSelections = {}
  /\ inflight = {}
  /\ received = 0
  /\ lastOp = NoOp

\* No media job has been processed or enqueued yet.
JInit ==
  /\ run = NoRun
  /\ handlers = {}
  /\ replying = {}
  /\ call = NoCall

\* The queue alone, driven by arbitrary tasks.
QueueInit == QInit /\ AInit /\ JInit /\ config = CHOOSE c \in Configs : TRUE

QNext ==
  \/ \E b \in TaskBehaviours : Add(b)
  \/ TaskFinish
  \/ LoopResume

QueueSpec == QueueInit /\ [][QNext]_vars

\* The bot: messages, lookups, the clock and the queue.
Init == QInit /\ AInit /\ JInit /\ config = CHOOSE c \in Configs : c.maxVideoDuration = 7200

Lookups ==
  {Lookup(c, st, m) : c \in Chats, st \in {"search", "playlist", "url"}, m \in MediaTypes}

Next ==
  \/ \E c \in Chats, t \in MessageTexts : Receive(c, t)
  \/ \E op \in Lookups, r \in YtsSearchResults, f \in BOOLEAN : SearchDone(op, r, f)
  \/ \E op \in Lookups, r \in YtsPlaylistResults, f \in BOOLEAN : PlaylistDone(op, r, f)
  \/ \E op \in Lookups, o \in {"video", "playlist", "error"}, v \in YtsVideoResults :
       UrlDone(op, o, v)
  \/ Tick
  \/ TaskFinish
  \/ LoopResume

Spec == Init /\ [][Next]_vars

\* A conversation to which a list has just been presented: what
\* handlePlayCommand (search results) or showPlaylistTracks (playlist tracks)
\* stored through setPendingSelection, under either configuration.
PresentedLists(cfg) ==
  {setPendingSelection({}, 1, Payload("search_results", searchMediaOptions(r, cfg), m), 0, cfg) :
     r \in {x \in YtsSearchResults : searchMediaOptions(x, cfg) # <<>>}, m \in MediaTypes}
  \cup
  {setPendingSelection({}, 1, Payload("playlist_tracks", getPlaylistOptions(r, cfg), m), 0, cfg) :
     r \in {x \in YtsPlaylistResults : getPlaylistOptions(x, cfg) # <<>>}, m \in MediaTypes}

ListedInit ==
  /\ QInit /\ JInit
  /\ config \in Configs
  /\ now = 0
  /\ pendingSelections \in PresentedLists(config)
  /\ inflight = {}
  /\ received = 0
  /\ lastOp = NoOp

\* The texts that are not commands: what users answer to a list.
ReplyTexts == {t \in MessageTexts : ~StartsWith(t, <<"/">>)}

\* The bot from the moment a list is on screen, while users answer it.
ListedNext ==
  \/ \E c \in Chats, t \in ReplyTexts : Receive(c, t)
  \/ \E op \in Lookups, r \in YtsPlaylistResults, f \in BOOLEAN : PlaylistDone(op, r, f)
  \/ Tick
  \/ TaskFinish
  \/ LoopResume

ListedSpec == ListedInit /\ [][ListedNext]_vars

\* Start-up under either configuration of the duration ceilings.
AnyConfigInit == QInit /\ AInit /\ JInit /\ config \in Configs

\* The bot while the clock stands still: every pending selection is answered
\* before its deadline.
StillNext ==
  \/ \E c \in Chats, t \in MessageTexts : Receive(c, t)
  \/ \E op \in Lookups, r \in YtsSearchResults, f \in BOOLEAN : SearchDone(op, r, f)
  \/ \E op \in Lookups, r \in YtsPlaylistResults, f \in BOOLEAN : PlaylistDone(op, r, f)
  \/ \E op \in Lookups, o \in {"video", "playlist", "error"}, v \in YtsVideoResults :
       UrlDone(op, o, v)
  \/ TaskFinish
  \/ LoopResume

AnyConfigSpec == AnyConfigInit /\ [][StillNext]_vars

\* The bot of the version whose messages may quote another message.
QuoteNext ==
  \/ \E c \in Chats, q \in QuotedTexts : ReceiveQuoted(c, <<"/", "p", "l", "a", "y">>, q)
  \/ \E c \in Chats, q \in BlankTexts : ReceiveQuoted(c, <<"/", "V", "i", "d", "e", "o">>, q)
  \/ \E op \in Lookups, r \in YtsSearchResults, f \in BOOLEAN : SearchDone(op, r, f)
  \/ \E op \in Lookups, r \in YtsPlaylistResults, f \in BOOLEAN : PlaylistDone(op, r, f)
  \/ \E op \in Lookups, o \in {"video", "playlist", "error"}, v \in YtsVideoResults :
       UrlDone(op, o, v)
  \/ Tick
  \/ TaskFinish
  \/ LoopResume

QuoteSpec == Init /\ [][QuoteNext]_vars

\* One call of processSelectedMedia, from its invocation to its end.
DurationSamples == {100, 4000}

DownloadNext ==
  \/ \E m \in MediaTypes, d \in DurationSamples, o \in VideoOptions,
          directory \in SUBSET OtherFileNames : StartMedia(m, d, o, directory)
  \/ \E outcome \in ReplyOutcomes : NoticeReplied(outcome)
  \/ \E outcome \in YtDlpOutcomes, size \in FileSizes(run.input.maxFileSize) :
       YtDlpDone(outcome, size)
  \/ \E outcome \in FfmpegOutcomes, size \in FileSizes(run.input.maxFileSize) :
       FfmpegDone(outcome, size)
  \/ \E outcome \in ReplyOutcomes \cup {"size"} : SendDone(outcome)
  \/ \E outcome \in ReplyOutcomes : OkReplied(outcome)
  \/ \E outcome \in ReplyOutcomes : ErrReplied(outcome)

DownloadSpec == QueueInit /\ [][DownloadNext]_vars

\* Media jobs from enqueueMediaJob to the settling of their handles; nothing
\* runs after the process has terminated.
EnqueueNext ==
  \/ \E b \in SettleOutcomes : EnqueueJob(1, MEDIA_AUDIO, b)
  \/ \E id \in 1..MaxJobs, ok \in BOOLEAN : PositionReplied(id, ok)
  \/ MediaTaskFinish
  \/ MediaLoopResume

EnqueueSpec == QueueInit /\ [][EnqueueNext]_vars

\* The pure functions of the bot, each called once with inputs from bounded sets.
FunctionNext ==
  \/ \E raw \in RawDurations, m \in MediaTypes : CallAssertDuration(raw, m)
  \/ \E text \in SelectionTexts, m \in MediaTypes : CallParseSelectionChoice(text, m)
  \/ \E text \in CommandTexts : CallParseCommand(text)
  \/ \E outcome \in FailedInvocations : CallYtDlpFailure(outcome)
  \/ \E raw \in LabelDurations : CallGetVideoSupportLabel(raw)
  \/ \E shorter, longer \in TierDurations,
          o \in VideoOptions \cup OutOfBoundsVideoOptions :
       CallBuildVideoCompressionProfile(shorter, longer, o)

FunctionSpec == AnyConfigInit /\ [][FunctionNext]_vars

\* ------------------------------------------------------------------ helpers
Range(s) == {s[i] : i \in 1..Len(s)}

Count(s, x) == Cardinality({i \in 1..Len(s) : s[i] = x})

SettledIds == {settled[k].id : k \in 1..Len(settled)}

ItemIds(its) == {its[i].id : i \in 1..Len(its)}

Added == 1..(nextId - 1)

\* --------------------------------------------------------------- the queue
\* The queue under weak fairness of task completion and of the resumption of
\* the loop: a task that was started finishes, and the event loop runs the
\* continuation of a settled await.
FairQueueSpec == QueueSpec /\ WF_vars(TaskFinish) /\ WF_vars(LoopResume)

\* C1: at every instant at most one queued task is executing.
C1_OneTaskAtATime == Len(executing) <= 1

C1_Witness == Len(executing) = 1 /\ Len(items) >= 3 /\ Len(removed) >= 1

\* C2: tasks start in the order they were added and their completion handles
\* settle in that same order, whatever the outcomes of earlier tasks and
\* whenever later adds happen (job ids are given in add order).
C2_StrictFifo ==
  /\ \A i \in 1..Len(started) : started[i] = i
  /\ \A i \in 1..Len(settled) : settled[i].id = i

C2_Witness ==
  /\ Len(settled) >= 3
  /\ settled[1].how = "rejected"
  /\ settled[2].how = "resolved"
  /\ \E e \in 1..Len(addLog) : addLog[e].id = 3 /\ addLog[e].removedBefore >= 1

\* C3: add returns the number of jobs added and not yet removed at that
\* instant, the new job included (1 on an idle queue); consecutive adds with
\* no removal in between return positions that grow by exactly one.
C3_PositionIsQueueLength ==
  /\ \A e \in 1..Len(addLog) :
       /\ addLog[e].position = addLog[e].id - addLog[e].removedBefore
       /\ ~addLog[e].wasRunning => addLog[e].position = 1
  /\ \A e \in 2..Len(addLog) :
       addLog[e].removedBefore = addLog[e - 1].removedBefore
         => addLog[e].position = addLog[e - 1].position + 1

C3_Witness ==
  /\ Len(addLog) >= 4
  /\ addLog[3].position = 3
  /\ addLog[4].removedBefore = 2
  /\ addLog[4].position = 2

\* C4: a task that throws synchronously or rejects has its own handle rejected
\* with its own error and is removed from the queue in the same synchronous
\* section, and the loop goes on: if a job is queued behind it, that job's
\* task has been invoked and the loop is still active.
C4_FailureDoesNotStopLoop ==
  [][\A k \in (Len(settled) + 1)..Len(settled') :
       LET s == settled'[k] IN
         /\ (\E e \in 1..Len(addLog') :
               addLog'[e].id = s.id /\ addLog'[e].task.behaviour \in {"reject", "throw"})
              <=> s.how = "rejected"
         /\ s.how = "rejected" =>
              /\ s.with = [kind |-> "error", of |-> s.id]
              /\ s.id \notin ItemIds(items')
              /\ s.id \in Range(removed')
              /\ items' # <<>> =>
                   /\ running'
                   /\ current' = Head(items').id
                   /\ Head(items').id \in Range(started')]_vars

C4_Witness ==
  /\ Len(settled) >= 2
  /\ settled[1].how = "rejected" /\ JobById(1).task.behaviour = "reject"
  /\ settled[2].how = "rejected" /\ JobById(2).task.behaviour = "throw"
  /\ 3 \in Range(executing)

\* C5: every job is executed at most once and its handle is settled at most
\* once; a settled handle belongs to a job whose task ran once and has
\* finished, carries that task's own result or error, and its job has left
\* the queue; a job leaves the queue only settled.
C5_ExactlyOnce ==
  \A id \in Added :
    /\ Count(started, id) <= 1
    /\ Cardinality({k \in 1..Len(settled) : settled[k].id = id}) <= 1
    /\ Count(removed, id) <= 1
    /\ \A k \in 1..Len(settled) : settled[k].id = id =>
         /\ Count(started, id) = 1
         /\ id \in Range(finished)
         /\ id \notin Range(executing)
         /\ settled[k].with = TaskResult(JobById(id))
         /\ settled[k].how = (IF JobById(id).task.behaviour = "resolve" THEN "resolved" ELSE "rejected")
         /\ id \notin ItemIds(items)
         /\ id \in Range(removed)
    /\ id \in Range(removed) => id \in SettledIds
    /\ id \notin Range(removed) => id \in ItemIds(items)

C5_Witness ==
  /\ Len(settled) = MaxJobs
  /\ items = <<>>
  /\ \E i, j \in 1..Len(settled) : settled[i].how = "resolved" /\ settled[j].how = "rejected"

\* C6: when every task finishes, the queue always comes back to the state
\* where it is empty, the loop is stopped (running = FALSE) and every job
\* added so far has been started and its handle settled; an add made while
\* the loop is stopped starts a loop that invokes the new job's task.
C6_DrainsAndRestarts ==
  /\ []<>(/\ items = <<>>
          /\ ~running
          /\ Added \subseteq Range(started)
          /\ Added \subseteq SettledIds)
  /\ [][(nextId' = nextId + 1 /\ ~running) => nextId \in Range(started')]_vars

C6_Witness ==
  /\ items = <<>> /\ ~running
  /\ 2 \in SettledIds
  /\ \E e \in 1..Len(addLog) :
       addLog[e].id = 2 /\ ~addLog[e].wasRunning /\ addLog[e].removedBefore = 1
          /\ addLog[e].task.behaviour # "throw"

\* ------------------------------------------------------- the selection store
EntryOf(chatId, payload, expiresAt) ==
  [chatId |-> chatId, mode |-> payload.mode, options |-> payload.options,
   defaultMediaType |-> payload.defaultMediaType, expiresAt |-> expiresAt]

\* C7: every conversation has at most one pending selection, and a call of
\* setPendingSelection leaves the conversation with exactly the entry made of
\* the payload (mode, options, default media type) stamped with
\* expiresAt = now + selectionTimeoutSeconds (in milliseconds).
C7_SetReplaces ==
  /\ [](\A c \in Chats : Cardinality(MapGet(pendingSelections, c)) <= 1)
  /\ [][\A p \in lastOp'.set :
          MapGet(pendingSelections', lastOp'.chat) =
            {EntryOf(lastOp'.chat, p, now + config.selectionTimeoutSeconds * 1000)}]_vars

C7_Witness ==
  /\ lastOp.set # {}
  /\ \E p \in lastOp.set, old \in lastOp.replaced :
       /\ old.mode # p.mode
       /\ old.defaultMediaType # p.defaultMediaType
       /\ old.expiresAt < now + config.selectionTimeoutSeconds * 1000
       /\ MapGet(pendingSelections, lastOp.chat) =
            {EntryOf(lastOp.chat, p, now + config.selectionTimeoutSeconds * 1000)}

\* C8: when a message is handled, getPendingSelection returns the stored entry
\* if now <= expiresAt; if now > expiresAt it returns nothing and the entry is
\* deleted, so that the conversation has no entry and the next read returns
\* nothing as well; with no entry it returns nothing.
C8_LazyExpiry ==
  [][lastOp'.kind = "message" =>
       LET found == MapGet(pendingSelections, lastOp'.chat)
       IN /\ found = {} => (lastOp'.got = {} /\ ~lastOp'.evicted)
          /\ \A e \in found :
               /\ now <= e.expiresAt => (lastOp'.got = {e} /\ ~lastOp'.evicted)
               /\ now > e.expiresAt =>
                    /\ lastOp'.got = {}
                    /\ lastOp'.evicted
                    /\ MapGet(pendingSelections', lastOp'.chat) = {}]_vars

C8_Witness ==
  /\ lastOp.kind = "message"
  /\ lastOp.evicted
  /\ lastOp.got = {}
  /\ MapGet(pendingSelections, lastOp.chat) = {}

\* C9: a selection reply handled after the conversation's pending selection
\* has expired enqueues no job, starts no playlist lookup and gets no reply:
\* the expired entry is deleted and the reply is handled as with no entry.
C9_ExpiredSelectionIgnored ==
  [][(/\ lastOp'.kind = "message"
      /\ lastOp'.index >= 0
      /\ \E e \in MapGet(pendingSelections, lastOp'.chat) : now > e.expiresAt)
     => /\ nextId' = nextId
        /\ items' = items
        /\ addLog' = addLog
        /\ inflight' = inflight
        /\ lastOp'.reply = "none"
        /\ MapGet(pendingSelections', lastOp'.chat) = {}]_vars

C9_Witness ==
  /\ lastOp.kind = "message"
  /\ lastOp.index >= 1
  /\ lastOp.evicted
  /\ nextId = 1
  /\ inflight = {}

\* C10: a selection reply whose index is outside 1..number of options, 0
\* included, is answered with "invalid option", enqueues no job, starts no
\* lookup and leaves every pending selection as it was.
C10_InvalidOptionKeepsSelection ==
  [][(/\ lastOp'.kind = "message"
      /\ lastOp'.index >= 0
      /\ \E e \in MapGet(pendingSelections, lastOp'.chat) :
           now <= e.expiresAt /\ lastOp'.index \notin 1..Len(e.options))
     => /\ lastOp'.reply = "invalid_option"
        /\ pendingSelections' = pendingSelections
        /\ nextId' = nextId
        /\ items' = items
        /\ addLog' = addLog
        /\ inflight' = inflight]_vars

C10_Witness ==
  /\ lastOp.kind = "message"
  /\ lastOp.index = 0
  /\ lastOp.reply = "invalid_option"
  /\ lastOp.got # {}
  /\ lastOp.got \subseteq pendingSelections

\* ------------------------------------------------------ resolving a selection
\* The candidate a selection reply picks in the pending selection it was read
\* against: {} when the index is out of range.
Picked(op) ==
  {[option |-> e.options[sel.index], mediaType |-> sel.mediaType, mode |-> e.mode] :
     <<e, sel>> \in {x \in op.got \X op.selection : x[2].index \in 1..Len(x[1].options)}}

\* C11: a selection reply that picks a playlist candidate of a search_results
\* pending selection enqueues no job and starts the playlist lookup with the
\* media type of the reply; when that lookup succeeds, the conversation has a
\* playlist_tracks pending selection over the tracks whose default media type
\* is that media type; and a bare-number reply to a playlist_tracks pending
\* selection enqueues its job with the default media type.
C11_PlaylistReopensSelection ==
  /\ [](\A e \in pendingSelections : \A text \in MessageTexts :
          (e.mode = "playlist_tracks" /\ AllDigits(Trim(text))) =>
            \A job \in Range(handleIncomingCommand(pendingSelections, e.chatId, text,
                                                   now, config).enqueue) :
              job.mediaType = e.defaultMediaType)
  /\ [][/\ \A p \in Picked(lastOp') :
             (lastOp'.kind = "message" /\ p.mode = "search_results"
                /\ p.option.kind = "playlist") =>
               /\ nextId' = nextId /\ items' = items /\ addLog' = addLog
               /\ lastOp'.reply = "loading_playlist"
               /\ Lookup(lastOp'.chat, "playlist", p.mediaType) \in inflight'
               /\ MapGet(pendingSelections', lastOp'.chat) = {}
        /\ \A op \in inflight \ inflight' :
             (op.stage = "playlist" /\ lastOp'.set # {}) =>
               /\ nextId' = nextId
               /\ \E r \in YtsPlaylistResults :
                    MapGet(pendingSelections', op.chat) =
                      {[chatId |-> op.chat, mode |-> "playlist_tracks",
                        options |-> getPlaylistOptions(r, config),
                        defaultMediaType |-> op.mediaType,
                        expiresAt |-> now + config.selectionTimeoutSeconds * 1000]}]_vars

C11_Witness ==
  /\ lastOp.kind = "playlist"
  /\ received = 2
  /\ nextId = 1
  /\ \E e \in MapGet(pendingSelections, lastOp.chat) :
       /\ e.mode = "playlist_tracks"
       /\ e.defaultMediaType = MEDIA_VIDEO
       /\ Len(e.options) >= 1

\* The duration ceiling of a media type.
Ceiling(mediaType) ==
  IF mediaType = MEDIA_VIDEO THEN config.maxVideoDuration ELSE config.maxAudioDuration

\* C12: a selection reply that picks, in either mode, a video candidate whose
\* duration is within the ceiling of the chosen media type enqueues exactly
\* one job, for that conversation, candidate and media type, and leaves the
\* conversation without a pending selection.
C12_ValidSelectionEnqueuesOnce ==
  [][\A p \in Picked(lastOp') :
       (/\ lastOp'.kind = "message"
        /\ p.option.kind = "video"
        /\ p.option.durationSeconds > 0
        /\ p.option.durationSeconds <= Ceiling(p.mediaType))
       => /\ nextId' = nextId + 1
          /\ \E b \in MediaTaskBehaviours :
               addLog' = Append(addLog,
                                [id |-> nextId,
                                 task |-> [behaviour |-> b, chat |-> lastOp'.chat,
                                           video |-> p.option, mediaType |-> p.mediaType],
                                 position |-> Len(items) + 1,
                                 removedBefore |-> Len(removed),
                                 wasRunning |-> running])
          /\ nextId \in ItemIds(items') \cup Range(removed')
          /\ lastOp'.reply = "position"
          /\ inflight' = inflight
          /\ MapGet(pendingSelections', lastOp'.chat) = {}]_vars

C12_Witness ==
  /\ lastOp.kind = "message"
  /\ lastOp.reply = "position"
  /\ nextId = 2
  /\ MapGet(pendingSelections, lastOp.chat) = {}
  /\ \E p \in Picked(lastOp) :
       /\ p.mode = "playlist_tracks"
       /\ p.mediaType = MEDIA_VIDEO
       /\ addLog[1].task.video = p.option
       /\ addLog[1].task.mediaType = MEDIA_VIDEO

\* C13: a selection reply that picks a video candidate longer than the
\* ceiling of the chosen media type is answered with AUDIO_DURATION_LIMIT or
\* VIDEO_DURATION_LIMIT, after the media type, and enqueues no job.
C13_OverCeilingSelectionFails ==
  [][\A p \in Picked(lastOp') :
       (/\ lastOp'.kind = "message"
        /\ p.option.kind = "video"
        /\ p.option.durationSeconds > Ceiling(p.mediaType))
       => /\ lastOp'.reply = IF p.mediaType = MEDIA_VIDEO THEN "VIDEO_DURATION_LIMIT"
                                                         ELSE "AUDIO_DURATION_LIMIT"
          /\ nextId' = nextId
          /\ items' = items
          /\ addLog' = addLog
          /\ executing' = executing]_vars

C13_Witness ==
  /\ lastOp.kind = "message"
  /\ lastOp.reply = "AUDIO_DURATION_LIMIT"
  /\ nextId = 1
  /\ config.maxAudioDuration = 1800
  /\ \E p \in Picked(lastOp) :
       p.mediaType = MEDIA_AUDIO /\ p.option = Video(2000)

\* -------------------------------------------------------- /cancel and /help
\* C14: handling /cancel removes the pending selection of the sender and of
\* nobody else, and answers "cancelled", or "nothing to cancel" when the read
\* returned nothing; it enqueues nothing, starts no lookup and leaves the
\* queue, the running task and every log of the queue as they were. Whatever
\* the step, a job leaves the queue only after its task has finished and its
\* handle has been settled.
C14_CancelOnlyClearsSelection ==
  /\ [](\A c \in Chats :
          LET eff == handleIncomingCommand(pendingSelections, c, CmdCancel, now, config)
              read == getPendingSelection(pendingSelections, c, now)
          IN /\ eff.store = MapDelete(pendingSelections, c)
             /\ eff.enqueue = <<>>
             /\ eff.spawn = {}
             /\ eff.reply = IF read.result = {} THEN "no_pending" ELSE "cancelled")
  /\ [][/\ (lastOp'.kind = "message" /\ lastOp'.reply \in {"cancelled", "no_pending"}) =>
             /\ pendingSelections' = MapDelete(pendingSelections, lastOp'.chat)
             /\ inflight' = inflight
             /\ UNCHANGED qvars
        /\ \A id \in ItemIds(items) \ ItemIds(items') :
             id \in Range(finished') /\ id \in {st.id : st \in Range(settled')}]_vars

C14_Witness ==
  /\ lastOp.kind = "message"
  /\ lastOp.reply \in {"cancelled", "no_pending"}
  /\ items # <<>>
  /\ executing # <<>>
  /\ items[1].task.chat = lastOp.chat

\* The Map after the lazy expiry of the entry of one conversation.
LiveOrOthers(store, chatId, t) ==
  {e \in store : e.chatId # chatId \/ t <= e.expiresAt}

\* C15 as stated: handling /help leaves every pending selection, the
\* sender's included, as it was, and enqueues no job.
C15_HelpMutatesNothing ==
  [][(lastOp'.kind = "message" /\ lastOp'.reply = "help") =>
       /\ pendingSelections' = pendingSelections
       /\ nextId' = nextId
       /\ addLog' = addLog]_vars

\* C15 amended: handling /help sends the help text, enqueues no job, starts
\* no lookup and leaves the queue alone; the pending selection of every other
\* conversation and the unexpired one of the sender are as before, and the
\* sender's expired entry (now > expiresAt) is deleted by the read.
C15_HelpKeepsLiveSelections ==
  /\ [](\A c \in Chats :
          LET eff == handleIncomingCommand(pendingSelections, c, CmdHelp, now, config)
          IN /\ eff.reply = "help"
             /\ eff.enqueue = <<>>
             /\ eff.spawn = {}
             /\ eff.store = LiveOrOthers(pendingSelections, c, now))
  /\ [][(lastOp'.kind = "message" /\ lastOp'.reply = "help") =>
          /\ pendingSelections' = LiveOrOthers(pendingSelections, lastOp'.chat, now)
          /\ inflight' = inflight
          /\ UNCHANGED qvars]_vars

C15_Witness ==
  /\ lastOp.kind = "message"
  /\ lastOp.reply = "help"
  /\ lastOp.got # {}
  /\ lastOp.got \subseteq pendingSelections
  /\ \E e \in lastOp.got : e.expiresAt = now

\* ----------------------------------------------------------- the downloader
\* downloadAudio / downloadVideo has ended, by a result or by an error.
DownloadEnded == run.pc \in {"send", "okReply", "errReply", "done"} /\ run.downloads = 1

\* The size the last size check looked at: the only stat of an audio job, the
\* stat after the last transcode of a video job. {} when the download ended
\* before that check.
FinalSize ==
  IF ~DownloadEnded \/ run.stats = <<>> THEN {}
  ELSE IF run.input.mediaType = MEDIA_VIDEO /\ Len(run.stats) # Len(run.transcodes) THEN {}
  ELSE {run.stats[Len(run.stats)]}

ProducedFile == IF run.input.mediaType = MEDIA_VIDEO THEN "wa" ELSE "raw"

\* C16: a result returned by downloadAudio or downloadVideo has a file size of
\* at most the ceiling of its media type, and a final size equal to the
\* ceiling is returned; a final size above the ceiling makes the download fail
\* with FILE_TOO_LARGE, return nothing, and delete the oversized file.
C16_SizeWithinCeiling ==
  /\ \A r \in run.returned : r.fileSize <= run.input.maxFileSize
  /\ \A size \in FinalSize :
       IF size <= run.input.maxFileSize
       THEN run.returned = {[filePath |-> ProducedFile, fileSize |-> size]}
       ELSE /\ run.returned = {}
            /\ run.error = "FILE_TOO_LARGE"
            /\ run.errorFrom = "download"
            /\ ProducedFile \notin run.files

C16_Witness ==
  /\ run.pc = "done"
  /\ run.input.mediaType = MEDIA_VIDEO
  /\ Len(run.transcodes) = 2
  /\ \E r \in run.returned : r.fileSize = maxVideoFileSize

\* C17: a job invokes the downloader at most once and the transcoder at most
\* twice (never for audio); the second transcode happens only after a first
\* output above the ceiling, with the fallback profile of the first profile,
\* from the same raw file, which still exists; once the downloader or the
\* transcoder has failed, no subprocess is invoked any more.
C17_SubprocessBudget ==
  /\ [](/\ run.downloads <= 1
        /\ Len(run.transcodes) <= 2
        /\ (run.input.mediaType # MEDIA_VIDEO => run.transcodes = <<>>)
        /\ (Len(run.transcodes) = 2 =>
              /\ run.stats[1] > run.input.maxFileSize
              /\ buildFallbackVideoCompressionProfile(run.transcodes[1].profile)
                   = {run.transcodes[2].profile}
              /\ run.transcodes[2].profile # run.transcodes[1].profile
              /\ run.transcodes[2].input = run.transcodes[1].input))
  /\ [][/\ Len(run'.transcodes) > Len(run.transcodes) =>
             run'.transcodes[Len(run'.transcodes)].input \in run'.files
        /\ (run'.errorFrom = "download" \/ run.errorFrom = "download") =>
             (run'.downloads = run.downloads /\ run'.transcodes = run.transcodes)]_vars

C17_Witness ==
  /\ run.pc = "done"
  /\ run.downloads = 1
  /\ Len(run.transcodes) = 2
  /\ run.error = "FFMPEG_ERROR"

\* C18: when processSelectedMedia ends, the file of the result that the
\* download returned no longer exists, whether the send succeeded, the send
\* failed or a later reply failed.
C18_OutputFileDeleted ==
  run.pc = "done" => \A r \in run.returned : r.filePath \notin run.files

C18_Witness ==
  /\ run.pc = "done"
  /\ run.returned # {}
  /\ run.settle = "reject"
  /\ run.error = "REPLY_FAILED"

\* C19: when a job ends, whatever the exit path, no file that the job created
\* remains in the download directory.
C19_NoFileRemains ==
  run.pc = "done" => run.files \cap FileNames = {}

\* --------------------------------------------------------- failure handling
\* C20: no failure inside a job terminates the process: the completion handle
\* of a job is never rejected while no rejection handler is attached to it.
C20_NoUnhandledRejection == ~UnhandledRejection

\* C21: when a reply capability fails with the not-connected condition, the
\* line the job reports for it is the not-connected message, neither a
\* send-failed message nor the internal-error message.
C21_NotConnectedLine ==
  run.cause = NotConnectedError => run.line = "WhatsApp temporariamente desconectado"

\* ----------------------------------------------------------- pure functions
\* C22: assertDurationForMedia fails with INVALID_DURATION for a duration that
\* is 0 or unknown, whatever the media type; a duration equal to the ceiling
\* of the media type is accepted; the ceiling plus one is rejected with the
\* duration-limit code of that media type.
C22_DurationBoundary ==
  call.fn = "assertDurationForMedia" =>
    LET duration == NumberOrZero(call.args[1])
        mediaType == call.args[2]
    IN /\ (call.args[1] \in {{}, {0}} => call.result = "INVALID_DURATION")
       /\ (duration = Ceiling(mediaType) => call.result = "")
       /\ (duration = Ceiling(mediaType) + 1 =>
             call.result = IF mediaType = MEDIA_VIDEO THEN "VIDEO_DURATION_LIMIT"
                                                     ELSE "AUDIO_DURATION_LIMIT")

C22_Witness ==
  /\ call.fn = "assertDurationForMedia"
  /\ call.args = <<{7200}, MEDIA_VIDEO>>
  /\ config.maxVideoDuration = 7200
  /\ call.result = ""

\* The media type a letter token stands for: a / audio, v / video, else none.
TokenMedia(token) ==
  IF token \in {<<"a">>, <<"a", "u", "d", "i", "o">>} THEN {MEDIA_AUDIO}
  ELSE IF token \in {<<"v">>, <<"v", "i", "d", "e", "o">>} THEN {MEDIA_VIDEO}
  ELSE {}

\* What the three shapes give for a trimmed, lower-cased text, when up to
\* `gap` spaces may stand between the letters and the digits.
ShapeResult(value, defaultMediaType, gap) ==
  IF AllDigits(value) THEN {[index |-> Number(value), mediaType |-> defaultMediaType]}
  ELSE
    {[index |-> Number(SubSeq(value, j + 1, Len(value))), mediaType |-> m] :
       <<i, j, m>> \in {x \in (1..Len(value)) \X (1..Len(value)) \X MediaTypes :
                         /\ x[1] <= x[2] /\ x[2] - x[1] <= gap /\ x[2] < Len(value)
                         /\ AllSpaces(SubSeq(value, x[1] + 1, x[2]))
                         /\ AllDigits(SubSeq(value, x[2] + 1, Len(value)))
                         /\ x[3] \in TokenMedia(SubSeq(value, 1, x[1]))}}
    \cup
    {[index |-> Number(SubSeq(value, 1, i)), mediaType |-> m] :
       <<i, j, m>> \in {x \in (1..Len(value)) \X (1..Len(value)) \X MediaTypes :
                         /\ x[1] <= x[2] /\ x[2] - x[1] <= gap /\ x[2] < Len(value)
                         /\ AllSpaces(SubSeq(value, x[1] + 1, x[2]))
                         /\ AllDigits(SubSeq(value, 1, x[1]))
                         /\ x[3] \in TokenMedia(SubSeq(value, x[2] + 1, Len(value)))}}

\* C23 as stated: parseSelectionChoice maps a bare integer n to (n, default),
\* <letters><digits> and <digits><letters> to (n, audio) for a / audio and
\* (n, video) for v / video, and gives no match for any other text.
C23_ExactShapes ==
  call.fn = "parseSelectionChoice" =>
    call.result = ShapeResult(ToLowerCase(Trim(call.args[1])), call.args[2], 0)

\* C23, amended: the same, where the letters and the digits may be separated
\* by spaces; the media type of a result is audio, video or the default.
C23_ShapesWithGap ==
  call.fn = "parseSelectionChoice" =>
    /\ call.result = ShapeResult(ToLowerCase(Trim(call.args[1])), call.args[2],
                                 Len(call.args[1]))
    /\ \A r \in call.result : r.mediaType \in MediaTypes \cup {call.args[2]}

C23_Witness ==
  /\ call.fn = "parseSelectionChoice"
  /\ call.args = <<<<"1", " ", "V">>, MEDIA_AUDIO>>
  /\ call.result = {[index |-> 1, mediaType |-> MEDIA_VIDEO]}

\* The first word of a text, up to its first space, and what follows it.
FirstWord(text) ==
  LET at == {i \in 1..Len(text) : text[i] = " "}
  IN IF at = {} THEN text
     ELSE SubSeq(text, 1, (CHOOSE i \in at : \A j \in at : i <= j) - 1)

AfterFirstWord(text) == SubSeq(text, Len(FirstWord(text)) + 2, Len(text))

\* C24: parseCommand returns a result for every text and changes nothing; a
\* text that does not start with "/" gives none; else the first word, compared
\* case-insensitively, gives help, cancel, play or video, and any other word
\* gives unknown; the query of play / video is the rest of the text, trimmed,
\* in its original case.
C24_CommandParsing ==
  /\ [](call.fn = "parseCommand" =>
         LET text == Trim(call.args[1])
             word == ToLowerCase(FirstWord(text))
             result == call.result
         IN /\ result.type \in {"none", "help", "cancel", "play", "video", "unknown"}
            /\ result.type = "none" <=> (Len(text) = 0 \/ text[1] # "/")
            /\ result.type = "help" <=> word = <<"/", "h", "e", "l", "p">>
            /\ result.type = "cancel" <=> word = <<"/", "c", "a", "n", "c", "e", "l">>
            /\ result.type = "play" <=> word = <<"/", "p", "l", "a", "y">>
            /\ result.type = "video" <=> word = <<"/", "v", "i", "d", "e", "o">>
            /\ result.type \in {"play", "video"} => result.query = Trim(AfterFirstWord(text)))
  /\ [][call'.fn = "parseCommand" =>
           UNCHANGED <<qvars, avars, run, handlers, replying>>]_vars

C24_Witness ==
  /\ call.fn = "parseCommand"
  /\ call.args = <<<<" ", "/", "P", "l", "a", "Y", " ", " ", "A", " ", "b">>>>
  /\ call.result.type = "play"
  /\ call.result.query = <<"A", " ", "b">>

\* ------------------------------------------------------------ quoted messages
\* A text is /play or /video with nothing after the command word.
BareCommand(text) ==
  ToLowerCase(Trim(text)) \in {<<"/", "p", "l", "a", "y">>, <<"/", "v", "i", "d", "e", "o">>}

\* The message just handled was <text> with <quotedText> in its context, and
\* its handling was that of <text> <quotedText>: the same pending selections,
\* the same lookup started, the same reply, nothing enqueued.
HandledAs(m, chat) ==
  LET eff == handleIncomingCommand(pendingSelections, chat,
                                   WithQuery(m.text, m.quotedText), now, config)
  IN /\ pendingSelections' = eff.store
     /\ inflight' = inflight \cup eff.spawn
     /\ lastOp'.reply = eff.reply
     /\ eff.enqueue = <<>>
     /\ UNCHANGED qvars

LookupSuccessReplies == {"list", "position", "loading_playlist"}

\* The step is the end of a lookup (search, link validation, playlist listing)
\* whose error is reported to the conversation.
LookupErrorStep ==
  /\ inflight' # inflight
  /\ lastOp'.kind \in {"search", "playlist", "url"}
  /\ lastOp'.reply \notin LookupSuccessReplies

\* The step is a message that starts a lookup: /play, /video or the choice of
\* a playlist in a result list.
LookupStartStep ==
  /\ received' # received
  /\ lastOp'.reply \in {"searching", "validating", "loading_playlist"}

WithinProfileBounds(profile) ==
  /\ profile.maxHeight \in 240..720
  /\ profile.crf \in 18..40
  /\ profile.audioBitrateKbps \in 32..192

\* No field of the profile can be tightened by the fallback: the height is at
\* most 360, the CRF is 40 and the audio bitrate is at most 48.
AtFallbackFloor(profile) ==
  /\ profile.maxHeight <= 360
  /\ profile.crf >= 40
  /\ profile.audioBitrateKbps <= 48

\* The first transcode of the job has produced an output above the ceiling.
FirstOutputTooLarge ==
  /\ Len(run.stats) >= 1
  /\ Len(run.transcodes) >= 1
  /\ run.stats[1] > run.input.maxFileSize

\* C27: the profile of a transcode is within the bounds; after a first output
\* above the ceiling the job either transcodes again, with a profile of no
\* greater height, no smaller CRF and no greater audio bitrate that differs
\* from the first, or, exactly when no field of the first profile would change,
\* transcodes no second time and fails with FILE_TOO_LARGE.
C27_FallbackProfile ==
  FirstOutputTooLarge =>
    LET profile == run.transcodes[1].profile
    IN /\ WithinProfileBounds(profile)
       /\ Len(run.transcodes) = 1 <=> AtFallbackFloor(profile)
       /\ Len(run.transcodes) = 1 =>
            /\ run.error = "FILE_TOO_LARGE"
            /\ run.errorFrom = "download"
            /\ run.returned = {}
       /\ Len(run.transcodes) = 2 =>
            LET fallback == run.transcodes[2].profile
            IN /\ fallback.maxHeight <= profile.maxHeight
               /\ fallback.crf >= profile.crf
               /\ fallback.audioBitrateKbps <= profile.audioBitrateKbps
               /\ fallback # profile
               /\ WithinProfileBounds(fallback)

\* A profile at the floor that is not the tightest one: no second transcode.
C27_Witness ==
  /\ FirstOutputTooLarge
  /\ run.transcodes = <<[input |-> "raw", profile |-> Profile(360, 40, 48)]>>
  /\ run.error = "FILE_TOO_LARGE"
  /\ run.pc = "done"

\* ------------------------------------------------------------------ raw file
\* downloadVideo has attempted a transcode and has returned or thrown.
TranscodeAttemptedAndLeft ==
  /\ Len(run.transcodes) >= 1
  /\ run.pc \notin {"ffmpeg1", "ffmpeg2"}

\* C28: once downloadVideo has attempted a transcode of the raw download and
\* has returned or thrown, the raw file no longer exists, whichever way it
\* left: first-pass success, fallback retry, transcoder failure, stat failure
\* or size overflow.
C28_RawFileDeleted ==
  TranscodeAttemptedAndLeft => \A t \in 1..Len(run.transcodes) :
                                  run.transcodes[t].input \notin run.files

\* The fallback pass exits with 0 and leaves no output: stat fails.
C28_Witness ==
  /\ Len(run.transcodes) = 2
  /\ run.pc = "errReply"
  /\ run.cause = StatError
  /\ "raw" \notin run.files

\* ------------------------------------------------------------ downloader sweep
\* C29: when yt-dlp exits with a non-zero code, no file whose name starts with
\* the base name of the job is in the download directory when the classified
\* error is raised, and the files with other names are those that were there.
C29_SweepByPrefix ==
  /\ [](run.ytdlp.exit = "nonzero" => run.files \cap FileNames = {})
  /\ [][run'.ytdlp.exit = "nonzero" /\ run.ytdlp.exit = "none" =>
          /\ run'.pc = "errReply"
          /\ run'.errorFrom = "download"
          /\ run'.files \ FileNames = run.files \ FileNames]_vars

C29_Witness ==
  /\ run.ytdlp.exit = "nonzero"
  /\ run.ytdlp.created = {"partial", "raw"}
  /\ run.pc = "errReply"
  /\ run.files = {"other"}

\* ------------------------------------------------------ failure classification
\* The diagnostic has one of the phrases, however it is written.
HasPhrase(stderr, phrases) == \E l \in stderr : l.phrase \in phrases

\* C30: a failed invocation of yt-dlp gets one code: YTDLP_NOT_FOUND when the
\* binary is missing; for a non-zero exit YTDLP_AUTH_REQUIRED when the
\* diagnostic has a bot-check or age-restriction phrase, else
\* YTDLP_CHALLENGE_FAILED when it has a challenge phrase, else
\* YTDLP_FORMAT_UNAVAILABLE when it has the format phrase, else YTDLP_ERROR.
C30_FailureClassification ==
  call.fn = "ytDlpFailure" =>
    LET outcome == call.args[1]
    IN /\ (outcome.exit = "error" /\ outcome.errno = "ENOENT") => call.result = "YTDLP_NOT_FOUND"
       /\ outcome.exit = "nonzero" =>
            call.result =
              IF HasPhrase(outcome.stderr, AuthPhrases) THEN "YTDLP_AUTH_REQUIRED"
              ELSE IF HasPhrase(outcome.stderr, ChallengePhrases) THEN "YTDLP_CHALLENGE_FAILED"
              ELSE IF HasPhrase(outcome.stderr, FormatPhrases) THEN "YTDLP_FORMAT_UNAVAILABLE"
              ELSE "YTDLP_ERROR"

\* -------------------------------------------------------------- support label
\* The label names the media type.
LabelContains(label, mediaType) ==
  IF mediaType = MEDIA_AUDIO THEN label \in {"A/V", "A"} ELSE label \in {"A/V", "V"}

\* C31: the support label of a candidate is A/V, A, V or - according to
\* whether its duration is in (0, maxAudioDuration] and in (0, maxVideoDuration],
\* and assertDurationForMedia succeeds for a media type exactly when the label
\* contains that media type.
C31_LabelAgreesWithPolicy ==
  call.fn = "getVideoSupportLabel" =>
    LET duration == NumberOrZero(call.args[1])
        supportsAudio == duration > 0 /\ duration <= config.maxAudioDuration
        supportsVideo == duration > 0 /\ duration <= config.maxVideoDuration
    IN /\ call.result.label = (IF supportsAudio /\ supportsVideo THEN "A/V"
                               ELSE IF supportsAudio THEN "A"
                               ELSE IF supportsVideo THEN "V" ELSE "-")
       /\ call.result.audio = "" <=> LabelContains(call.result.label, MEDIA_AUDIO)
       /\ call.result.video = "" <=> LabelContains(call.result.label, MEDIA_VIDEO)

\* A candidate exactly at the video ceiling, above the audio ceiling.
C31_Witness ==
  /\ call.fn = "getVideoSupportLabel"
  /\ call.args = <<{7200}>>
  /\ config.maxVideoDuration = 7200
  /\ call.result = [label |-> "V", audio |-> "AUDIO_DURATION_LIMIT", video |-> ""]

\* ---------------------------------------------------------- profile by tiers
\* C32: under one configuration the profile of a longer source has no greater
\* height, no smaller CRF and no greater audio bitrate than the profile of a
\* shorter one, and every profile is within the bounds (height 240..720,
\* CRF 18..40, audio bitrate 32..192).
C32_ProfileMonotone ==
  call.fn = "buildVideoCompressionProfile" =>
    LET ofShorter == call.result[1]
        ofLonger == call.result[2]
    IN /\ call.args[1] <= call.args[2]
       /\ ofLonger.maxHeight <= ofShorter.maxHeight
       /\ ofLonger.crf >= ofShorter.crf
       /\ ofLonger.audioBitrateKbps <= ofShorter.audioBitrateKbps
       /\ \A profile \in {ofShorter, ofLonger} :
            /\ profile.maxHeight \in 240..720
            /\ profile.crf \in 18..40
            /\ profile.audioBitrateKbps \in 32..192

\* The default configuration, below the first and at the last threshold.
C32_Witness ==
  /\ call.fn = "buildVideoCompressionProfile"
  /\ call.args = <<1799, 7200, NoVideoOptions>>
  /\ call.result = <<Profile(480, 30, 64), Profile(240, 32, 48)>>

\* ------------------------------------------------------------ listed videos
\* C33: every video of every pending selection, from a search or from a
\* playlist, has a duration above 0 and not above the greater of the two
\* ceilings, so that it is supported for at least one media type.
C33_StoredVideosSupported ==
  \A e \in pendingSelections : \A k \in 1..Len(e.options) :
    e.options[k].kind = "video" =>
      /\ e.options[k].durationSeconds > 0
      /\ \/ e.options[k].durationSeconds <= config.maxAudioDuration
         \/ e.options[k].durationSeconds <= config.maxVideoDuration
      /\ \A ceiling \in {config.maxAudioDuration, config.maxVideoDuration} :
            ceiling >= config.maxAudioDuration /\ ceiling >= config.maxVideoDuration
              => e.options[k].durationSeconds <= ceiling

\* The tracks of a playlist whose first video is over the ceiling, and a
\* search whose answer had videos of unknown and over-ceiling duration.
C33_Witness ==
  /\ \E e \in pendingSelections :
       e.mode = "playlist_tracks" /\ e.options = <<Video(100), Video(1500)>>
  /\ \E e \in pendingSelections :
       e.mode = "search_results" /\ e.options = <<Video(100), Playlist, Video(2000)>>

\* --------------------------------------------------------------- queued jobs
\* C34: every job ever added to the queue, whether from a link, a search
\* result or a playlist track, carries a video whose duration is above 0 and
\* not above the ceiling of the job's media type.
C34_QueuedJobsWithinCeiling ==
  \A k \in 1..Len(addLog) :
    /\ addLog[k].task.video.kind = "video"
    /\ addLog[k].task.mediaType \in MediaTypes
    /\ addLog[k].task.video.durationSeconds > 0
    /\ addLog[k].task.video.durationSeconds <=
         (IF addLog[k].task.mediaType = MEDIA_VIDEO THEN config.maxVideoDuration
                                                    ELSE config.maxAudioDuration)

\* An audio job from a link whose video is within the audio ceiling.
C34_Witness ==
  /\ lastOp.kind = "url"
  /\ lastOp.reply = "position"
  /\ Len(addLog) = 1
  /\ addLog[1].task.mediaType = MEDIA_AUDIO
  /\ addLog[1].task.video = Video(1500)

\* ------------------------------------------------------ conversations apart
\* C35: a step that creates, changes or removes the pending selection of a
\* conversation is a step of the handling of a message of that conversation:
\* the message itself or the end of a lookup it started.
C35_OtherConversationsUntouched ==
  [][\A b \in Chats :
       MapGet(pendingSelections', b) # MapGet(pendingSelections, b) =>
         /\ lastOp'.chat = b
         /\ lastOp'.kind \in {"message", "search", "playlist", "url"}]_vars

\* A conversation starts a search while another one has a list open.
C35_Witness ==
  /\ lastOp.kind = "message"
  /\ lastOp.reply = "searching"
  /\ MapGet(pendingSelections, lastOp.chat) = {}
  /\ \E e \in pendingSelections : e.chatId # lastOp.chat

\* C36: one presented list yields at most one job.  A selection reply that
\* enqueues a job was read against a list and removes that list in the same
\* synchronous section, so no other reply, before or after, is resolved against
\* it; and a list appears for a conversation only when a search or a playlist
\* lookup presents a new one.
C36_OneJobPerList ==
  /\ [][(lastOp'.kind = "message" /\ Len(addLog') > Len(addLog)) =>
          /\ Len(addLog') = Len(addLog) + 1
          /\ lastOp'.got # {}
          /\ lastOp'.got \subseteq pendingSelections
          /\ {e \in pendingSelections' : e.chatId = lastOp'.chat} = {}]_vars
  /\ [][\A c \in Chats :
          LET before == {e \in pendingSelections : e.chatId = c}
              after == {e \in pendingSelections' : e.chatId = c}
          IN (after # {} /\ after # before) =>
               lastOp'.kind \in {"search", "playlist"} /\ lastOp'.reply = "list"]_vars

\* Two selection replies were sent to one list: the first enqueued the only
\* job, the second found no list.
C36_Witness ==
  /\ received = 2
  /\ Len(addLog) = 1
  /\ addLog[1].task.chat = 1
  /\ lastOp.kind = "message"
  /\ lastOp.chat = 1
  /\ lastOp.index >= 1
  /\ lastOp.got = {}
  /\ lastOp.reply = "none"
  /\ now = 0

\* C37: the pending selection belongs to the most recently received command.
\* Right after a /cancel of a conversation has been handled, or a /play or
\* /video while a playlist drill-down of an earlier reply is under way, every
\* lookup of the conversation still in flight was started by an earlier message:
\* none of them installs its list when it completes.
C37_LatestCommandOwnsSelection ==
  [][\A c \in Chats :
       (/\ lastOp.kind = "message"
        /\ lastOp.chat = c
        /\ lastOp'.chat = c
        /\ \/ /\ lastOp.reply \in {"cancelled", "no_pending"}
              /\ lastOp'.kind \in {"search", "playlist"}
           \/ /\ lastOp.reply \in {"searching", "validating"}
              /\ lastOp'.kind = "playlist")
       => {e \in pendingSelections' : e.chatId = c}
            = {e \in pendingSelections : e.chatId = c}]_vars

\* C38: the position reply of a job is issued before the first progress reply
\* of its task.  A task issues its "downloading" reply in the synchronous
\* section that invokes it (the first statement of processSelectedMedia), and
\* enqueueMediaJob issues the position reply at the end of the section that
\* calls queue.add: when that section ends, the task of the job it added has
\* not been invoked yet.
C38_PositionReplyFirst ==
  [][\A id \in replying' \ replying : id \notin Range(started')]_vars

\* The error codes of assertDurationForMedia.
DurationFailures == {"INVALID_DURATION", "AUDIO_DURATION_LIMIT", "VIDEO_DURATION_LIMIT"}

\* C39: a selection reply rejected by the duration policy leaves the pending
\* selection of its conversation as it was, and the reply of the conversation
\* handled next is read against that same list.
C39_RejectedReplyKeepsList ==
  /\ [][(lastOp'.kind = "message" /\ lastOp'.reply \in DurationFailures) =>
          /\ lastOp'.got # {}
          /\ lastOp'.got \subseteq pendingSelections
          /\ pendingSelections' = pendingSelections
          /\ Len(addLog') = Len(addLog)]_vars
  /\ [][(/\ lastOp.kind = "message"
          /\ lastOp.reply \in DurationFailures
          /\ lastOp'.kind = "message"
          /\ lastOp'.chat = lastOp.chat) => lastOp'.got = lastOp.got]_vars

\* "V2" was refused for a track of 1500 s under the 1200 s video ceiling, and
\* the reply "2" that followed enqueued the same track as audio.
C39_Witness ==
  /\ config.maxVideoDuration = 1200
  /\ received = 2
  /\ lastOp.kind = "message"
  /\ lastOp.index = 2
  /\ lastOp.reply = "position"
  /\ \E e \in lastOp.got : e.mode = "playlist_tracks" /\ e.options[2] = Video(1500)
  /\ Len(addLog) = 1
  /\ addLog[1].task.video = Video(1500)
  /\ addLog[1].task.mediaType = MEDIA_AUDIO
  /\ now = 0

\* C40: no lost wake-up.  Between the synchronous sections of add() and
\* process(), a queue that holds a job has running = true, with a loop
\* suspended on the task of the head job or about to resume from it, and
\* running = false only with an empty queue.
C40_NoLostWakeUp ==
  /\ Len(items) > 0 => running
  /\ ~running => items = <<>>
  /\ running =>
       /\ Len(items) > 0
       /\ current = Head(items).id
       /\ awaited \in {"pending", "fulfilled", "rejected"}
       /\ awaited = "pending" => \E i \in 1..Len(executing) : executing[i] = current

\* An add() arrived between the end of the last task and the resumption of the
\* loop that would have found the queue empty: the loop is still marked
\* running and the new job waits behind the finished one.
C40_Witness ==
  /\ Len(items) = 2
  /\ running
  /\ awaited \in {"fulfilled", "rejected"}
  /\ executing = <<>>
  /\ Len(removed) >= 1
  /\ addLog[Len(addLog)].id = items[2].id
  /\ addLog[Len(addLog)].wasRunning
  /\ items[2].id \notin {started[i] : i \in 1..Len(started)}

====
